---------------------------- MODULE Spec2Model ----------------------------
(***************************************************************************)
(* A model of the virtual memory manager simulator: the VMM core           *)
(* (backend/src/vmm/VMM.cpp), its page table (PageTable.cpp), the three    *)
(* replacement algorithms (Replacement.cpp), and the simulator that wires  *)
(* the workload generator to the VMM (main.cpp, WorkloadGen.cpp).          *)
(*                                                                         *)
(* The VMM's member functions are written as operators over a record `s`   *)
(* holding the object's fields; every public operation is one action that  *)
(* applies the whole member function (it runs under VMM::mutex_).          *)
(***************************************************************************)
EXTENDS Integers, Sequences, FiniteSets, TLC

\* ------------------------------------------------------------------ bounds

\* Serviced accesses per behaviour (recent_accesses_ records each of them).
MaxAccesses == 3

\* Configurations use total_frames in 1..MaxFrames.
MaxFrames == 2

\* Configurations use total_pages = NumPages; accesses name pages 0..NumPages-1.
NumPages == 3

\* setConfig calls per behaviour of the VMM driven through its public interface.
MaxReconfigs == 1

\* setAIPredictions calls are enabled while ai_predictions is below this.
MaxPredictionCalls == 1

\* POST /simulate/start requests per behaviour of the simulator.
MaxStarts == 2

\* WorkloadConfig::total_requests of the simulator (1000 in main.cpp), scaled
\* down so that a workload completes and restarts within MaxAccesses.
SimTotalRequests == 2

\* Length of the access sequences replayed exhaustively on MaxFrames frames.
MaxScriptLen == 4

\* Largest WorkloadConfig::total_requests of a generator used on its own.
MaxRequests == 3

\* Connections the HTTP server accepts, each served by a thread of its own.
MaxConnections == 2

\* accessPage calls the simulation thread makes while the mutexes are watched.
MaxWorkerCalls == 1

\* ------------------------------------------------------- program constants

MAX_RECENT_ACCESSES == 100

MAX_RECENT_PREDICTIONS == 50

\* ---------------------------------------------------------------- helpers

\* frame vectors are 0-indexed: a vector of n elements is a function on 0..n-1
Vec(n, v) == [i \in 0..(n - 1) |-> v]

Size(vec) == Cardinality(DOMAIN vec)

\* std::vector::resize(n, v): keeps the first min(n, size) elements as they
\* are and appends copies of v up to n elements.
Resize(vec, n, v) == [i \in 0..(n - 1) |-> IF i \in DOMAIN vec THEN vec[i] ELSE v]

\* C++ int % int and int / int truncate toward zero.
CMod(a, b) == IF a >= 0 THEN a % b ELSE -((-a) % b)

CDiv(a, b) == IF a >= 0 THEN a \div b ELSE -((-a) \div b)

\* 2^64 mod m, by squaring 2 six times modulo m.
Sq(x, m) == (x * x) % m

TwoTo64Mod(m) == Sq(Sq(Sq(Sq(Sq(Sq(2 % m, m), m), m), m), m), m)

\* int % size_t: the int operand is converted to a 64-bit unsigned value
\* (a negative x becomes x + 2^64) before the unsigned remainder is taken.
SizeMod(x, m) == IF x >= 0 THEN x % m ELSE ((x % m) + TwoTo64Mod(m)) % m

Policies == {"FIFO", "LRU", "CLOCK"}

Configs ==
    [total_frames : 1..MaxFrames, total_pages : {NumPages},
     replacement_policy : Policies, enable_ai_predictions : BOOLEAN]

AccessPages == 0..(NumPages - 1)

\* -------------------------------------------------------------- page table

\* PageEntry's default member initialisers
DefaultEntry ==
    [valid |-> FALSE, referenced |-> FALSE, modified |-> FALSE,
     frame_number |-> -1, access_count |-> 0, last_access_time |-> 0]

\* PageTable::PageTable : pages_ starts as an empty map
EmptyPageTable == [q \in {} |-> DefaultEntry]

\* pages_[p] : operator[] default-constructs a missing entry
Entry(pt, p) == IF p \in DOMAIN pt THEN pt[p] ELSE DefaultEntry

PutEntry(pt, p, e) == [q \in (DOMAIN pt) \cup {p} |-> IF q = p THEN e ELSE pt[q]]

isPageValid(pt, p) == p \in DOMAIN pt /\ pt[p].valid

isPageModified(pt, p) == p \in DOMAIN pt /\ pt[p].modified

getFrameNumber(pt, p) ==
    IF p \in DOMAIN pt /\ pt[p].valid THEN pt[p].frame_number ELSE -1

setPageValid(pt, p, v) == PutEntry(pt, p, [Entry(pt, p) EXCEPT !.valid = v])

setPageModified(pt, p, m) == PutEntry(pt, p, [Entry(pt, p) EXCEPT !.modified = m])

setFrameNumber(pt, p, f) == PutEntry(pt, p, [Entry(pt, p) EXCEPT !.frame_number = f])

\* Mutant of recordPageAccess: the access is stamped but not counted.
recordPageAccess_NoCount(pt, p, now) ==
    PutEntry(pt, p, [Entry(pt, p) EXCEPT !.referenced = TRUE,
                                         !.last_access_time = now])

recordPageAccess(pt, p, now) ==
    PutEntry(pt, p, [Entry(pt, p) EXCEPT !.referenced = TRUE,
                                         !.access_count = @ + 1,
                                         !.last_access_time = now])

getValidPages(pt) == {q \in DOMAIN pt : pt[q].valid}

\* ----------------------------------------------------- replacement policies

\* ReplacementManager::ReplacementManager / setPolicy: a fresh algorithm
\* object. The record holds the fields of all three algorithm classes; only
\* those of the active policy are ever read or written.
NewReplacement(policy, num_frames) ==
    [policy |-> policy,
     fifo_queue |-> << >>,
     in_queue |-> {},
     last_access_times |-> Vec(num_frames, 0),
     current_time |-> 0,
     reference_bits |-> Vec(num_frames, FALSE),
     clock_hand |-> 0]

\* The select operators return [repl |-> the algorithm afterwards,
\* victim |-> the frame, or -1].

\* Mutant of FIFO_selectVictimFrame: the frame at the back of the queue (the
\* one queued last) is chosen instead of the one at the front.
FIFO_selectVictimFrame_Newest(r, frame_validity) ==
    IF r.fifo_queue = << >>
    THEN [repl |-> r, victim |-> -1]
    ELSE [repl |-> r, victim |-> r.fifo_queue[Len(r.fifo_queue)]]

RECURSIVE FIFO_selectVictimFrame(_, _)
FIFO_selectVictimFrame(r, frame_validity) ==
    IF r.fifo_queue = << >>
    THEN [repl |-> r, victim |-> -1]
    ELSE LET frame == Head(r.fifo_queue) IN
         IF frame_validity[frame]
         THEN [repl |-> r, victim |-> frame]
         ELSE FIFO_selectVictimFrame(
                  [r EXCEPT !.fifo_queue = Tail(@), !.in_queue = @ \ {frame}],
                  frame_validity)

FIFO_recordFrameAccess(r, frame) ==
    IF frame \notin r.in_queue
    THEN [r EXCEPT !.fifo_queue = Append(@, frame), !.in_queue = @ \cup {frame}]
    ELSE r

\* Mutant of LRU_scan: a frame replaces the running minimum when its tick is
\* not larger (<= for <), so the last of several oldest frames is chosen.
RECURSIVE LRU_scan_LastWins(_, _, _, _, _)
LRU_scan_LastWins(r, frame_validity, i, oldest, victim) ==
    IF i >= Size(frame_validity)
    THEN victim
    ELSE IF frame_validity[i]
            /\ (oldest = -1 \/ r.last_access_times[i] <= oldest)
         THEN LRU_scan_LastWins(r, frame_validity, i + 1, r.last_access_times[i], i)
         ELSE LRU_scan_LastWins(r, frame_validity, i + 1, oldest, victim)

\* The loop of LRUReplacement::selectVictimFrame from index i on, with the
\* running minimum (oldest = -1 stands for ULLONG_MAX, above every tick).
RECURSIVE LRU_scan(_, _, _, _, _)
LRU_scan(r, frame_validity, i, oldest, victim) ==
    IF i >= Size(frame_validity)
    THEN victim
    ELSE IF frame_validity[i]
            /\ (oldest = -1 \/ r.last_access_times[i] < oldest)
         THEN LRU_scan(r, frame_validity, i + 1, r.last_access_times[i], i)
         ELSE LRU_scan(r, frame_validity, i + 1, oldest, victim)

\* Mutant of LRU_selectVictimFrame: the occupied frame with the largest tick
\* (the most recently used one) is chosen.
LRU_selectVictimFrame_MostRecent(r, frame_validity) ==
    LET occupied == {i \in DOMAIN frame_validity : frame_validity[i]} IN
    [repl |-> r,
     victim |-> IF occupied = {}
                THEN -1
                ELSE CHOOSE i \in occupied :
                         \A j \in occupied :
                             r.last_access_times[j] <= r.last_access_times[i]]

LRU_selectVictimFrame(r, frame_validity) ==
    [repl |-> r, victim |-> LRU_scan(r, frame_validity, 0, -1, -1)]

\* Mutant of LRU_recordFrameAccess: the access leaves no tick behind.
LRU_recordFrameAccess_Forgets(r, frame) == r

LRU_recordFrameAccess(r, frame) ==
    IF frame >= 0 /\ frame < Size(r.last_access_times)
    THEN [r EXCEPT !.last_access_times[frame] = r.current_time,
                   !.current_time = @ + 1]
    ELSE r

\* First do-while loop of CLOCKReplacement::selectVictimFrame.
RECURSIVE CLOCK_firstPass(_, _, _)
CLOCK_firstPass(r, frame_validity, start_hand) ==
    LET n == Size(frame_validity)
        h == r.clock_hand
    IN IF frame_validity[h] /\ ~r.reference_bits[h]
       THEN [repl |-> [r EXCEPT !.clock_hand = (h + 1) % n], victim |-> h]
       ELSE LET r2 == [r EXCEPT !.clock_hand = (h + 1) % n] IN
            IF r2.clock_hand # start_hand
            THEN CLOCK_firstPass(r2, frame_validity, start_hand)
            ELSE [repl |-> r2, victim |-> -1]

\* Second do-while loop of CLOCKReplacement::selectVictimFrame.
RECURSIVE CLOCK_secondPass(_, _, _)
CLOCK_secondPass(r, frame_validity, start_hand) ==
    LET n == Size(frame_validity)
        h == r.clock_hand
    IN IF frame_validity[h] /\ ~r.reference_bits[h]
       THEN [repl |-> [r EXCEPT !.clock_hand = (h + 1) % n], victim |-> h]
       ELSE LET r2 == [r EXCEPT
                          !.reference_bits[h] = IF frame_validity[h] THEN FALSE ELSE @,
                          !.clock_hand = (h + 1) % n]
            IN IF r2.clock_hand # start_hand
               THEN CLOCK_secondPass(r2, frame_validity, start_hand)
               ELSE [repl |-> r2, victim |-> -1]

CLOCK_selectVictimFrame(r, frame_validity) ==
    LET first == CLOCK_firstPass(r, frame_validity, r.clock_hand) IN
    IF first.victim # -1
    THEN first
    ELSE CLOCK_secondPass(first.repl, frame_validity, r.clock_hand)

CLOCK_recordFrameAccess(r, frame) ==
    IF frame >= 0 /\ frame < Size(r.reference_bits)
    THEN [r EXCEPT !.reference_bits[frame] = TRUE]
    ELSE r

\* ReplacementManager dispatches to the active algorithm.
selectVictimFrame(r, frame_validity) ==
    CASE r.policy = "FIFO" -> FIFO_selectVictimFrame(r, frame_validity)
      [] r.policy = "LRU" -> LRU_selectVictimFrame(r, frame_validity)
      [] r.policy = "CLOCK" -> CLOCK_selectVictimFrame(r, frame_validity)

recordFrameAccess(r, frame) ==
    CASE r.policy = "FIFO" -> FIFO_recordFrameAccess(r, frame)
      [] r.policy = "LRU" -> LRU_recordFrameAccess(r, frame)
      [] r.policy = "CLOCK" -> CLOCK_recordFrameAccess(r, frame)

\* ---------------------------------------------------------------- VMM core

\* VMMMetrics' member initialisers
ZeroMetrics ==
    [total_accesses |-> 0, page_faults |-> 0, swap_ins |-> 0,
     swap_outs |-> 0, ai_predictions |-> 0, ai_hits |-> 0]

\* VMM::VMM : the object after construction with `config`.  `events` is not a
\* field of VMM: it collects, in order, the VMMEvents the running operation
\* hands to event_callback_ (the callback is installed, as VMMSimulator does).
NewVMM(config) ==
    [config_ |-> config,
     pages_ |-> EmptyPageTable,
     repl |-> NewReplacement(config.replacement_policy, config.total_frames),
     metrics_ |-> ZeroMetrics,
     frame_validity_ |-> Vec(config.total_frames, FALSE),
     frame_to_page_ |-> Vec(config.total_frames, -1),
     frame_modified_ |-> Vec(config.total_frames, FALSE),
     recent_accesses_ |-> << >>,
     recent_predictions_ |-> << >>,
     ai_prediction_confidence_ |-> 0,
     simulation_running_ |-> FALSE,
     events |-> << >>]

Event(type, msg, args) == [type |-> type, msg |-> msg, args |-> args]

emitEvent(s, type, msg, args) ==
    [s EXCEPT !.events = Append(@, Event(type, msg, args))]

\* The lowest-indexed frame whose validity bit is clear, or -1.
findFreeFrame(s) ==
    IF \E i \in DOMAIN s.frame_validity_ : ~s.frame_validity_[i]
    THEN CHOOSE i \in DOMAIN s.frame_validity_ :
             /\ ~s.frame_validity_[i]
             /\ \A j \in DOMAIN s.frame_validity_ : j < i => s.frame_validity_[j]
    ELSE -1

\* Mutant of allocateFrame: the frame found is handed out without its
\* validity bit being set.
allocateFrame_NoMark(s) ==
    LET free_frame == findFreeFrame(s) IN
    IF free_frame # -1
    THEN [s |-> [s EXCEPT !.frame_modified_[free_frame] = FALSE],
          frame |-> free_frame]
    ELSE [s |-> s, frame |-> -1]

\* Returns [s |-> the VMM afterwards, frame |-> the frame, or -1].
allocateFrame(s) ==
    LET free_frame == findFreeFrame(s) IN
    IF free_frame # -1
    THEN [s |-> [s EXCEPT !.frame_validity_[free_frame] = TRUE,
                          !.frame_modified_[free_frame] = FALSE],
          frame |-> free_frame]
    ELSE [s |-> s, frame |-> -1]

\* Mutant of swapIn: the event is emitted but swap_ins is not counted.
swapIn_NoCount(s, page_number, frame_number) ==
    emitEvent(s, "SWAP_IN", "Swapped in", <<page_number, frame_number>>)

swapIn(s, page_number, frame_number) ==
    emitEvent([s EXCEPT !.metrics_.swap_ins = @ + 1],
              "SWAP_IN", "Swapped in", <<page_number, frame_number>>)

swapOut(s, page_number, frame_number) ==
    emitEvent([s EXCEPT !.metrics_.swap_outs = @ + 1],
              "SWAP_OUT", "Swapped out", <<page_number, frame_number>>)

\* Mutant of updateRecentAccesses: a full window drops the page just pushed
\* instead of its oldest one.
updateRecentAccesses_DropsNewest(s, page_number) ==
    LET pushed == Append(s.recent_accesses_, page_number) IN
    [s EXCEPT !.recent_accesses_ =
        IF Len(pushed) > MAX_RECENT_ACCESSES
        THEN SubSeq(pushed, 1, MAX_RECENT_ACCESSES)
        ELSE pushed]

updateRecentAccesses(s, page_number) ==
    LET pushed == Append(s.recent_accesses_, page_number) IN
    [s EXCEPT !.recent_accesses_ =
        IF Len(pushed) > MAX_RECENT_ACCESSES THEN Tail(pushed) ELSE pushed]

\* The three pattern rules of requestAIPredictions, then the fill-up to three
\* candidates: [pages |-> the candidates, confidence |-> in percent].
PredictFrom(third_last, second_last, last_page, total_pages) ==
    LET rule ==
          IF last_page = second_last + 1 /\ second_last = third_last + 1
          THEN [pages |-> << SizeMod(last_page + 1, total_pages),
                             SizeMod(last_page + 2, total_pages) >>,
                confidence |-> 85]
          ELSE IF last_page - second_last = second_last - third_last
          THEN LET stride == last_page - second_last IN
               [pages |-> << SizeMod(last_page + stride, total_pages),
                             SizeMod(last_page + 2 * stride, total_pages) >>,
                confidence |-> 70]
          ELSE LET base == CDiv(last_page, 10) * 10 IN
               [pages |-> << SizeMod(base + CMod(CMod(last_page, 10) + 1, 10), total_pages),
                             SizeMod(base + CMod(CMod(last_page, 10) + 2, 10), total_pages) >>,
                confidence |-> 60]
    IN IF Len(rule.pages) < 3
       THEN [rule EXCEPT !.pages = Append(@, SizeMod(last_page + 3, total_pages))]
       ELSE rule

\* recent_predictions_ with `predictions` appended, cut to the last 50.
StorePredictions(recent, predictions) ==
    LET all == recent \o predictions IN
    IF Len(all) > MAX_RECENT_PREDICTIONS
    THEN SubSeq(all, Len(all) - MAX_RECENT_PREDICTIONS + 1, Len(all))
    ELSE all

\* Returns [s |-> the VMM afterwards, predictions |-> the predicted pages].
requestAIPredictions(s) ==
    IF ~s.config_.enable_ai_predictions \/ s.recent_accesses_ = << >>
    THEN [s |-> s, predictions |-> << >>]
    ELSE IF Len(s.recent_accesses_) < 3
    THEN [s |-> s, predictions |-> << >>]
    ELSE LET n == Len(s.recent_accesses_)
             p == PredictFrom(s.recent_accesses_[n - 2], s.recent_accesses_[n - 1],
                              s.recent_accesses_[n], s.config_.total_pages)
             s1 == [s EXCEPT !.ai_prediction_confidence_ = p.confidence,
                             !.metrics_.ai_predictions = @ + 1,
                             !.recent_predictions_ = StorePredictions(@, p.pages)]
             s2 == emitEvent(s1, "AI", "Predicted", p.pages)
             s3 == emitEvent(s2, "AI", "Generated", <<Len(p.pages), p.confidence>>)
         IN [s |-> s3, predictions |-> p.pages]

\* Mutant of PrefetchOne: with no frame free the prefetch takes frame 0 from
\* the page it holds.
PrefetchOne_Evicts(s, page_number, predicted_page) ==
    IF predicted_page # page_number /\ ~isPageValid(s.pages_, predicted_page)
    THEN LET free_frame == findFreeFrame(s)
             frame == IF free_frame # -1 THEN free_frame ELSE 0
             s1 == IF free_frame = -1 /\ s.frame_to_page_[0] # -1
                   THEN [s EXCEPT !.pages_ = setPageValid(@, s.frame_to_page_[0], FALSE)]
                   ELSE s
         IN emitEvent(swapIn(s1, predicted_page, frame),
                      "AI", "Prefetched", <<predicted_page>>)
    ELSE s

\* One iteration of the prefetch loop of accessPage for predicted_page.
PrefetchOne(s, page_number, predicted_page) ==
    IF predicted_page # page_number /\ ~isPageValid(s.pages_, predicted_page)
    THEN LET free_frame == findFreeFrame(s) IN
         IF free_frame # -1
         THEN emitEvent(swapIn(s, predicted_page, free_frame),
                        "AI", "Prefetched", <<predicted_page>>)
         ELSE s
    ELSE s

RECURSIVE PrefetchLoop(_, _, _, _)
PrefetchLoop(s, page_number, predictions, i) ==
    IF i > Len(predictions)
    THEN s
    ELSE PrefetchLoop(PrefetchOne(s, page_number, predictions[i]),
                      page_number, predictions, i + 1)

\* The prefetch step of accessPage.
PrefetchStep(s, page_number) ==
    IF s.config_.enable_ai_predictions /\ Len(s.recent_accesses_) >= 3
    THEN LET req == requestAIPredictions(s) IN
         PrefetchLoop(req.s, page_number, req.predictions, 1)
    ELSE s

\* Mutant of EvictVictim: the victim page is not marked invalid.
EvictVictim_KeepsVictimValid(s, frame_number) ==
    LET victim_page == s.frame_to_page_[frame_number] IN
    IF victim_page # -1
    THEN LET s2 == IF s.frame_modified_[frame_number]
                   THEN swapOut(s, victim_page, frame_number)
                   ELSE s
         IN emitEvent(s2, "EVICT", "Evicted", <<victim_page, frame_number>>)
    ELSE s

\* The eviction block of handlePageFault for the selected victim frame.
EvictVictim(s, frame_number) ==
    LET victim_page == s.frame_to_page_[frame_number] IN
    IF victim_page # -1
    THEN LET s1 == [s EXCEPT !.pages_ = setPageValid(@, victim_page, FALSE)]
             s2 == IF s1.frame_modified_[frame_number]
                   THEN swapOut(s1, victim_page, frame_number)
                   ELSE s1
         IN emitEvent(s2, "EVICT", "Evicted", <<victim_page, frame_number>>)
    ELSE s

\* Mutant of LoadPage: the page is bound to the frame but not marked valid.
LoadPage_LeavesInvalid(s, page_number, is_write, frame_number) ==
    LET s1 == swapIn(s, page_number, frame_number)
        pt2 == setFrameNumber(s1.pages_, page_number, frame_number)
        pt3 == recordPageAccess(pt2, page_number, s1.metrics_.total_accesses)
        pt4 == IF is_write THEN setPageModified(pt3, page_number, TRUE) ELSE pt3
    IN [s1 EXCEPT !.pages_ = pt4,
                  !.frame_modified_[frame_number] = IF is_write THEN TRUE ELSE @,
                  !.frame_to_page_[frame_number] = page_number,
                  !.repl = recordFrameAccess(@, frame_number)]

\* "Load the new page" in handlePageFault.
LoadPage(s, page_number, is_write, frame_number) ==
    LET s1 == swapIn(s, page_number, frame_number)
        pt1 == setPageValid(s1.pages_, page_number, TRUE)
        pt2 == setFrameNumber(pt1, page_number, frame_number)
        pt3 == recordPageAccess(pt2, page_number, s1.metrics_.total_accesses)
        pt4 == IF is_write THEN setPageModified(pt3, page_number, TRUE) ELSE pt3
    IN [s1 EXCEPT !.pages_ = pt4,
                  !.frame_modified_[frame_number] = IF is_write THEN TRUE ELSE @,
                  !.frame_to_page_[frame_number] = page_number,
                  !.repl = recordFrameAccess(@, frame_number)]

\* Mutant of handlePageFault: when no victim is found the page is loaded into
\* frame 0 after the ERROR event.
handlePageFault_LoadsWithoutVictim(s, page_number, is_write) ==
    LET s1 == emitEvent([s EXCEPT !.metrics_.page_faults = @ + 1],
                        "FAULT", "Page fault", <<page_number>>)
        alloc == allocateFrame(s1)
    IN IF alloc.frame # -1
       THEN LoadPage(alloc.s, page_number, is_write, alloc.frame)
       ELSE LET sel == selectVictimFrame(s1.repl, s1.frame_validity_)
                s2 == [s1 EXCEPT !.repl = sel.repl]
            IN IF sel.victim = -1
               THEN emitEvent(LoadPage(s2, page_number, is_write, 0),
                              "ERROR", "No victim frame found", << >>)
               ELSE LoadPage(EvictVictim(s2, sel.victim),
                             page_number, is_write, sel.victim)

handlePageFault(s, page_number, is_write) ==
    LET s1 == emitEvent([s EXCEPT !.metrics_.page_faults = @ + 1],
                        "FAULT", "Page fault", <<page_number>>)
        alloc == allocateFrame(s1)
    IN IF alloc.frame # -1
       THEN LoadPage(alloc.s, page_number, is_write, alloc.frame)
       ELSE LET sel == selectVictimFrame(s1.repl, s1.frame_validity_)
                s2 == [s1 EXCEPT !.repl = sel.repl]
            IN IF sel.victim = -1
               THEN emitEvent(s2, "ERROR", "No victim frame found", << >>)
               ELSE LoadPage(EvictVictim(s2, sel.victim),
                             page_number, is_write, sel.victim)

\* Position of the first occurrence of x in seq (std::find), 0 when absent.
FindFirst(seq, x) ==
    IF \E i \in 1..Len(seq) : seq[i] = x
    THEN CHOOSE i \in 1..Len(seq) :
             seq[i] = x /\ \A j \in 1..(i - 1) : seq[j] # x
    ELSE 0

EraseAt(seq, i) == SubSeq(seq, 1, i - 1) \o SubSeq(seq, i + 1, Len(seq))

\* Mutant of HitAttribution: every occurrence of the page is removed from the
\* recent predictions.
HitAttribution_RemovesAll(s, page_number) ==
    IF s.config_.enable_ai_predictions /\ s.recent_predictions_ # << >>
    THEN LET it == FindFirst(s.recent_predictions_, page_number) IN
         IF it # 0
         THEN LET s1 == emitEvent([s EXCEPT !.metrics_.ai_hits = @ + 1],
                                  "AI", "AI HIT", <<page_number>>)
              IN [s1 EXCEPT !.recent_predictions_ =
                               SelectSeq(@, LAMBDA q : q # page_number)]
         ELSE s
    ELSE s

\* The "successful AI prediction" block of the hit path.
HitAttribution(s, page_number) ==
    IF s.config_.enable_ai_predictions /\ s.recent_predictions_ # << >>
    THEN LET it == FindFirst(s.recent_predictions_, page_number) IN
         IF it # 0
         THEN LET s1 == emitEvent([s EXCEPT !.metrics_.ai_hits = @ + 1],
                                  "AI", "AI HIT", <<page_number>>)
              IN [s1 EXCEPT !.recent_predictions_ = EraseAt(@, it)]
         ELSE s
    ELSE s

\* The hit path of accessPage (page_number is valid in the page table).
HitPath(s, page_number, is_write) ==
    LET frame_number == getFrameNumber(s.pages_, page_number)
        s1 == [s EXCEPT
                 !.pages_ = recordPageAccess(@, page_number, s.metrics_.total_accesses),
                 !.repl = recordFrameAccess(@, frame_number)]
        s2 == HitAttribution(s1, page_number)
        s3 == IF is_write
              THEN [s2 EXCEPT !.pages_ = setPageModified(@, page_number, TRUE),
                              !.frame_modified_[frame_number] = TRUE]
              ELSE s2
    IN emitEvent(s3, "ACCESS", IF is_write THEN "write" ELSE "read", <<page_number>>)

\* Mutant of accessPage: the access is counted and recorded before
\* simulation_running_ is tested.
accessPage_CountsBeforeCheck(s, page_number, is_write) ==
    LET s1 == updateRecentAccesses(
                  [s EXCEPT !.metrics_.total_accesses = @ + 1], page_number)
    IN IF ~s.simulation_running_
       THEN [s |-> s1, ret |-> FALSE]
       ELSE LET s2 == PrefetchStep(s1, page_number) IN
            IF isPageValid(s2.pages_, page_number)
            THEN [s |-> HitPath(s2, page_number, is_write), ret |-> TRUE]
            ELSE [s |-> handlePageFault(s2, page_number, is_write), ret |-> TRUE]

\* VMM::accessPage: [s |-> the VMM afterwards, ret |-> the value returned].
accessPage(s, page_number, is_write) ==
    IF ~s.simulation_running_
    THEN [s |-> s, ret |-> FALSE]
    ELSE LET s1 == updateRecentAccesses(
                       [s EXCEPT !.metrics_.total_accesses = @ + 1], page_number)
             s2 == PrefetchStep(s1, page_number)
         IN IF isPageValid(s2.pages_, page_number)
            THEN [s |-> HitPath(s2, page_number, is_write), ret |-> TRUE]
            ELSE [s |-> handlePageFault(s2, page_number, is_write), ret |-> TRUE]

startSimulation(s) ==
    emitEvent([s EXCEPT !.simulation_running_ = TRUE],
              "SIMULATION", "Simulation started", << >>)

stopSimulation(s) ==
    emitEvent([s EXCEPT !.simulation_running_ = FALSE],
              "SIMULATION", "Simulation stopped", << >>)

\* VMM::setConfig: a new page table and replacement manager; the three frame
\* vectors are resized, which keeps the elements they already hold.
setConfig(s, config) ==
    [s EXCEPT
       !.config_ = config,
       !.pages_ = EmptyPageTable,
       !.repl = NewReplacement(config.replacement_policy, config.total_frames),
       !.frame_validity_ = Resize(@, config.total_frames, FALSE),
       !.frame_to_page_ = Resize(@, config.total_frames, -1),
       !.frame_modified_ = Resize(@, config.total_frames, FALSE)]

resetMetrics(s) == [s EXCEPT !.metrics_ = ZeroMetrics]

\* One iteration of the loop of setAIPredictions.
SetPredictionOne(s, page) ==
    IF ~isPageValid(s.pages_, page)
    THEN LET free_frame == findFreeFrame(s) IN
         IF free_frame # -1
         THEN emitEvent([swapIn(s, page, free_frame) EXCEPT !.metrics_.ai_hits = @ + 1],
                        "AI", "Prefetched", <<page>>)
         ELSE s
    ELSE s

RECURSIVE SetPredictionLoop(_, _, _)
SetPredictionLoop(s, predicted_pages, i) ==
    IF i > Len(predicted_pages)
    THEN s
    ELSE SetPredictionLoop(SetPredictionOne(s, predicted_pages[i]),
                           predicted_pages, i + 1)

setAIPredictions(s, predicted_pages) ==
    LET s1 == emitEvent([s EXCEPT !.metrics_.ai_predictions = @ + 1],
                        "AI", "Received", <<Len(predicted_pages)>>)
    IN SetPredictionLoop(s1, predicted_pages, 1)

getFreeFrameCount(s) ==
    Cardinality({i \in DOMAIN s.frame_validity_ : ~s.frame_validity_[i]})

getUsedFrameCount(s) ==
    Cardinality({i \in DOMAIN s.frame_validity_ : s.frame_validity_[i]})

\* ------------------------------------------------------------------ state

VARIABLES
    vmm,        \* the VMM object (the record built by NewVMM)
    sim,        \* the VMMSimulator's own fields (main.cpp)
    wl,         \* the WorkloadGenerator object
    last,       \* the public VMM operation called last, and what it returned
    reconfigs,  \* history: how many times VMM::setConfig has been applied
    written,    \* history: the resident pages written since they were installed
    script,     \* the access sequence a driver replays, and its position in it
    received,   \* history: what recording callbacks set on the generator got
                \* since its last start(): the accesses and the completions
    threads,    \* the threads running beside the caller, each with its
                \* position in its code and its local variables
    locks       \* the owner of each std::mutex (NoOwner when it is free)

vars == <<vmm, sim, wl, last, reconfigs, written, script, received, threads, locks>>

Call(op, page, write, ret) == [op |-> op, page |-> page, write |-> write, ret |-> ret]

\* A call starts with an empty event log.
Fresh(s) == [s EXCEPT !.events = << >>]

\* The written-since-install set after the VMM went from s to t in a call
\* that wrote `wrote` (a set of pages).
WrittenAfter(s, t, wrote) ==
    {q \in written \cup wrote :
        /\ isPageValid(t.pages_, q)
        /\ (q \in wrote \/ isPageValid(s.pages_, q))}

\* VMMSimulator::VMMSimulator : vmm_config_ with total_frames and total_pages
\* scaled down from 256 and 1024 to the model's bounds.
SimVMMConfig(enable_ai) ==
    [total_frames |-> MaxFrames, total_pages |-> NumPages,
     replacement_policy |-> "CLOCK", enable_ai_predictions |-> enable_ai]

\* workload_config_ of the simulator, page_range scaled down from 1000.
SimWorkloadConfig(type) ==
    [type |-> type, total_requests |-> SimTotalRequests,
     page_range |-> NumPages, stride |-> 1]

\* WorkloadGenerator::WorkloadGenerator
NewWorkload(config) == [config_ |-> config, running_ |-> FALSE, current_position_ |-> 0]

\* VMMSimulator::VMMSimulator; "thread" tells whether simulation_thread_ holds
\* a thread (joinable).
NewSimulator ==
    [simulation_running_ |-> FALSE,
     vmm_config_ |-> SimVMMConfig(TRUE),
     workload_config_ |-> SimWorkloadConfig("RANDOM"),
     thread |-> FALSE]

\* A driver's script: the pages to access in order, whether the accesses are
\* writes, and how many of them have been issued.
Script(pages, writes) == [pages |-> pages, writes |-> writes, pos |-> 0]

\* No access sequence is being replayed.
NoScript == Script(<< >>, FALSE)

\* The recording callbacks have been called for nothing yet.
NothingReceived == [accesses |-> << >>, completions |-> 0]

\* No thread runs beside the caller of the operations.
NoThreads == << >>

\* No mutex is looked at: the operations run one at a time.
NoLocks == << >>

\* A VMM constructed with any configuration; nothing has been called yet.
Init ==
    /\ vmm \in {NewVMM(c) : c \in Configs}
    /\ sim = NewSimulator
    /\ wl = NewWorkload(NewSimulator.workload_config_)
    /\ last = Call("VMM", -1, FALSE, TRUE)
    /\ reconfigs = 0
    /\ written = {}
    /\ script = NoScript
    /\ received = NothingReceived
    /\ threads = NoThreads
    /\ locks = NoLocks

\* ---------------------------------------------------------------- actions

StartSimulation ==
    /\ vmm' = startSimulation(Fresh(vmm))
    /\ last' = Call("startSimulation", -1, FALSE, TRUE)
    /\ UNCHANGED <<sim, wl, reconfigs, written, script, received, threads, locks>>

StopSimulation ==
    /\ vmm' = stopSimulation(Fresh(vmm))
    /\ last' = Call("stopSimulation", -1, FALSE, TRUE)
    /\ UNCHANGED <<sim, wl, reconfigs, written, script, received, threads, locks>>

\* The effect of one accessPage(page_number, is_write) call on vmm, last and
\* written.
ServeAccess(page_number, is_write) ==
    LET r == accessPage(Fresh(vmm), page_number, is_write) IN
    /\ vmm' = r.s
    /\ last' = Call("accessPage", page_number, is_write, r.ret)
    /\ written' = WrittenAfter(vmm, r.s,
                               IF r.ret /\ is_write THEN {page_number} ELSE {})

\* One accessPage call of an unscripted driver: a serviced access needs room
\* in the bounded history, a refused one (simulation not running) is always
\* possible.
DoAccess(page_number, is_write) ==
    /\ vmm.simulation_running_ => Len(vmm.recent_accesses_) < MaxAccesses
    /\ ServeAccess(page_number, is_write)

AccessPage(page_number, is_write) ==
    /\ DoAccess(page_number, is_write)
    /\ UNCHANGED <<sim, wl, reconfigs, script, received, threads, locks>>

SetConfig(config) ==
    /\ reconfigs < MaxReconfigs
    /\ vmm' = setConfig(Fresh(vmm), config)
    /\ last' = Call("setConfig", -1, FALSE, TRUE)
    /\ reconfigs' = reconfigs + 1
    /\ written' = {}
    /\ UNCHANGED <<sim, wl, script, received, threads, locks>>

ResetMetrics ==
    /\ vmm' = resetMetrics(Fresh(vmm))
    /\ last' = Call("resetMetrics", -1, FALSE, TRUE)
    /\ UNCHANGED <<sim, wl, reconfigs, written, script, received, threads, locks>>

\* setAIPredictions(predicted_pages); the calls are bounded through the
\* ai_predictions counter each of them increments.
SetAIPredictions(predicted_pages) ==
    /\ vmm.metrics_.ai_predictions < MaxPredictionCalls
    /\ vmm' = setAIPredictions(Fresh(vmm), predicted_pages)
    /\ last' = Call("setAIPredictions", -1, FALSE, TRUE)
    /\ UNCHANGED <<sim, wl, reconfigs, written, script, received, threads, locks>>

\* The page lists handed to setAIPredictions.
PredictionLists == {<<p>> : p \in AccessPages} \cup {<<0, NumPages - 1>>}

\* The VMM object used through its public interface.
Next ==
    \/ StartSimulation
    \/ StopSimulation
    \/ \E p \in AccessPages, w \in BOOLEAN : AccessPage(p, w)
    \/ \E c \in Configs : SetConfig(c)

Spec == Init /\ [][Next]_vars

\* The VMM driven by accessPage alone (after startSimulation), with the
\* configuration it was constructed with.
NextAccess ==
    \/ StartSimulation
    \/ StopSimulation
    \/ \E p \in AccessPages, w \in BOOLEAN : AccessPage(p, w)

SpecAccess == Init /\ [][NextAccess]_vars

\* The VMM with its configuration fixed, driven through the rest of its
\* public interface: accesses, metric resets and external predictions.
NextApi ==
    \/ StartSimulation
    \/ StopSimulation
    \/ \E p \in AccessPages, w \in BOOLEAN : AccessPage(p, w)
    \/ ResetMetrics
    \/ \E l \in PredictionLists : SetAIPredictions(l)

SpecApi == Init /\ [][NextApi]_vars

\* Page numbers a caller may hand to accessPage: those of the page table and
\* one on each side of them.
AnyPages == (-1)..NumPages

\* accessPage called with any int, in range or not.
AccessAnyPage(page_number, is_write) ==
    /\ DoAccess(page_number, is_write)
    /\ UNCHANGED <<sim, wl, reconfigs, script, received, threads, locks>>

\* The VMM driven by accessPage with page numbers of any range.
NextRange ==
    \/ StartSimulation
    \/ StopSimulation
    \/ \E p \in AnyPages, w \in BOOLEAN : AccessAnyPage(p, w)

SpecRange == Init /\ [][NextRange]_vars

\* -------------------------------------------------------------- simulator

\* The workload names handleStartSimulation maps to a WorkloadType; every
\* other name selects RANDOM.
WorkloadTypeOf(workload) ==
    CASE workload = "sequential" -> "SEQUENTIAL"
      [] workload = "strided" -> "STRIDED"
      [] workload = "db_like" -> "ZIPF"
      [] OTHER -> "RANDOM"

generateSequentialAccess(w) == w.current_position_ % w.config_.page_range

generateStridedAccess(w) ==
    SizeMod(w.current_position_ * w.config_.stride, w.config_.page_range)

\* The page generateNextAccess draws; `rnd` is the value the random
\* distributions (uniform, Zipf) produce, any page of the range.
GeneratedPage(w, rnd) ==
    CASE w.config_.type = "SEQUENTIAL" -> generateSequentialAccess(w)
      [] w.config_.type = "STRIDED" -> generateStridedAccess(w)
      [] OTHER -> rnd

\* The end of generateNextAccess: advance, and on completion clear running_
\* and run the completion callback, which resets and restarts the generator.
AdvanceWorkload(w) ==
    LET w1 == [w EXCEPT !.current_position_ = @ + 1] IN
    IF w1.current_position_ >= w1.config_.total_requests
    THEN [w1 EXCEPT !.running_ = TRUE, !.current_position_ = 0]
    ELSE w1

\* main() after g_simulator->start(): the HTTP server is up and the VMM has
\* been started; no simulation thread exists yet.
InitSim ==
    /\ vmm = startSimulation(NewVMM(NewSimulator.vmm_config_))
    /\ sim = NewSimulator
    /\ wl = NewWorkload(NewSimulator.workload_config_)
    /\ last = Call("startSimulation", -1, FALSE, TRUE)
    /\ reconfigs = 0
    /\ written = {}
    /\ script = NoScript
    /\ received = NothingReceived
    /\ threads = NoThreads
    /\ locks = NoLocks

\* POST /simulate/start with the given mode and workload: the configuration
\* is applied to the VMM and to the generator, then
\* VMMSimulator::startSimulation runs.
HandleStartSimulation(mode, workload) ==
    /\ reconfigs < MaxStarts
    /\ LET vcfg == [sim.vmm_config_ EXCEPT !.enable_ai_predictions = (mode # "ai_off")]
           wcfg == [sim.workload_config_ EXCEPT !.type = WorkloadTypeOf(workload)]
           wl1 == [wl EXCEPT !.config_ = wcfg]
       IN /\ vmm' = setConfig(Fresh(vmm), vcfg)
          /\ IF ~sim.simulation_running_
             THEN /\ sim' = [sim EXCEPT !.vmm_config_ = vcfg,
                                        !.workload_config_ = wcfg,
                                        !.simulation_running_ = TRUE,
                                        !.thread = TRUE]
                  /\ wl' = [wl1 EXCEPT !.running_ = TRUE, !.current_position_ = 0]
             ELSE /\ sim' = [sim EXCEPT !.vmm_config_ = vcfg,
                                        !.workload_config_ = wcfg]
                  /\ wl' = wl1
    /\ last' = Call("setConfig", -1, FALSE, TRUE)
    /\ reconfigs' = reconfigs + 1
    /\ written' = {}
    /\ UNCHANGED <<script, received, threads, locks>>

\* POST /simulate/stop: VMMSimulator::stopSimulation, which joins the
\* simulation thread.
HandleStopSimulation ==
    /\ sim.simulation_running_
    /\ sim' = [sim EXCEPT !.simulation_running_ = FALSE, !.thread = FALSE]
    /\ wl' = [wl EXCEPT !.running_ = FALSE]
    /\ vmm' = stopSimulation(Fresh(vmm))
    /\ last' = Call("stopSimulation", -1, FALSE, TRUE)
    /\ UNCHANGED <<reconfigs, written, script, received, threads, locks>>

\* One iteration of the simulation thread's loop: generateNextAccess, whose
\* access callback calls VMM::accessPage.
WorkloadStep(is_write, rnd) ==
    /\ sim.thread
    /\ sim.simulation_running_
    /\ wl.running_
    /\ DoAccess(GeneratedPage(wl, rnd), is_write)
    /\ wl' = AdvanceWorkload(wl)
    /\ UNCHANGED <<sim, reconfigs, script, received, threads, locks>>

NextSim ==
    \/ \E mode \in {"ai_off", "prefetch_only"},
          workload \in {"sequential", "random", "strided", "db_like"} :
          HandleStartSimulation(mode, workload)
    \/ HandleStopSimulation
    \/ \E w \in BOOLEAN, rnd \in 0..(NumPages - 1) : WorkloadStep(w, rnd)

SpecSim == InitSim /\ [][NextSim]_vars

\* ------------------------------------------------------ scripted accesses

\* The reference string of the replacement examples.
ReferenceString == <<1, 2, 3, 4, 1, 2, 5, 1, 2, 3, 4, 5>>

\* Three distinct pages, one access each.
ShortString == <<1, 2, 3>>

\* A started generator of the SEQUENTIAL pattern over ten pages, one thousand
\* requests long.
SequentialWorkload ==
    [NewWorkload([type |-> "SEQUENTIAL", total_requests |-> 1000,
                  page_range |-> 10, stride |-> 1])
        EXCEPT !.running_ = TRUE]

\* The pages that generator produces until it completes: request i is drawn
\* at current_position_ = i - 1.
SequentialString ==
    [i \in 1..SequentialWorkload.config_.total_requests |->
        GeneratedPage([SequentialWorkload EXCEPT !.current_position_ = i - 1], 0)]

\* The access sequences a driver replays, each with the frame and page counts
\* of the VMM it is replayed on: the three examples, every sequence of
\* MaxAccesses accesses on a VMM with a single frame, and every sequence of
\* MaxScriptLen accesses on a VMM with MaxFrames frames.
Scenarios ==
    {[total_frames |-> 3, total_pages |-> 8, pages |-> ReferenceString],
     [total_frames |-> 2, total_pages |-> 8, pages |-> ShortString],
     [total_frames |-> 4, total_pages |-> 100, pages |-> SequentialString]}
    \cup {[total_frames |-> 1, total_pages |-> NumPages, pages |-> q] :
             q \in [1..MaxAccesses -> AccessPages]}
    \cup {[total_frames |-> MaxFrames, total_pages |-> NumPages, pages |-> q] :
             q \in [1..MaxScriptLen -> AccessPages]}

ScenarioConfig(sc, policy, enable_ai) ==
    [total_frames |-> sc.total_frames, total_pages |-> sc.total_pages,
     replacement_policy |-> policy, enable_ai_predictions |-> enable_ai]

\* A VMM constructed for a scenario and started, with the scenario's accesses
\* still to be issued, all of them reads or all of them writes.
InitScript ==
    /\ \E sc \in Scenarios, policy \in Policies, enable_ai \in BOOLEAN,
          writes \in BOOLEAN :
          /\ vmm = startSimulation(NewVMM(ScenarioConfig(sc, policy, enable_ai)))
          /\ script = Script(sc.pages, writes)
    /\ sim = NewSimulator
    /\ wl = NewWorkload(NewSimulator.workload_config_)
    /\ last = Call("startSimulation", -1, FALSE, TRUE)
    /\ reconfigs = 0
    /\ written = {}
    /\ received = NothingReceived
    /\ threads = NoThreads
    /\ locks = NoLocks

\* The driver issues the next access of its script.
ScriptStep ==
    /\ script.pos < Len(script.pages)
    /\ ServeAccess(script.pages[script.pos + 1], script.writes)
    /\ script' = [script EXCEPT !.pos = @ + 1]
    /\ UNCHANGED <<sim, wl, reconfigs, received, threads, locks>>

NextScript == ScriptStep

SpecScript == InitScript /\ [][NextScript]_vars

\* --------------------------------------------------- the generator by itself

\* WorkloadGenerator::start
Generator_start(w) == [w EXCEPT !.running_ = TRUE, !.current_position_ = 0]

\* WorkloadGenerator::stop
Generator_stop(w) == [w EXCEPT !.running_ = FALSE]

\* WorkloadGenerator::generateNextAccess with callbacks that do not touch the
\* generator: [w |-> the generator afterwards, called |-> the access callback
\* was called, page |-> with this page, completed |-> the completion callback
\* was called].
generateNextAccess(w, rnd) ==
    IF ~w.running_
    THEN [w |-> w, called |-> FALSE, page |-> -1, completed |-> FALSE]
    ELSE LET page == GeneratedPage(w, rnd)
             w1 == [w EXCEPT !.current_position_ = @ + 1]
             done == w1.current_position_ >= w1.config_.total_requests
         IN [w |-> IF done THEN [w1 EXCEPT !.running_ = FALSE] ELSE w1,
             called |-> page >= 0,
             page |-> page,
             completed |-> done]

\* Configurations of a generator used on its own: the three deterministic or
\* uniform patterns, a few requests, small page ranges, and strides forward,
\* wider and backward.
GenStrides == {-1, 1, 2}

GenConfigs ==
    [type : {"SEQUENTIAL", "STRIDED", "RANDOM"}, total_requests : 1..MaxRequests,
     page_range : 2..NumPages, stride : GenStrides]

\* A generator constructed with any of these configurations, recording
\* callbacks set, not started.
InitGen ==
    /\ vmm = NewVMM(NewSimulator.vmm_config_)
    /\ sim = NewSimulator
    /\ wl \in {NewWorkload(c) : c \in GenConfigs}
    /\ last = Call("WorkloadGenerator", -1, FALSE, TRUE)
    /\ reconfigs = 0
    /\ written = {}
    /\ script = NoScript
    /\ received = NothingReceived
    /\ threads = NoThreads
    /\ locks = NoLocks

GenStart ==
    /\ wl' = Generator_start(wl)
    /\ received' = NothingReceived
    /\ last' = Call("start", -1, FALSE, TRUE)
    /\ UNCHANGED <<vmm, sim, reconfigs, written, script, threads, locks>>

GenStop ==
    /\ wl' = Generator_stop(wl)
    /\ last' = Call("stop", -1, FALSE, TRUE)
    /\ UNCHANGED <<vmm, sim, reconfigs, written, script, received, threads, locks>>

\* One generateNextAccess call; is_write and rnd are what the random
\* distributions produce, rnd a page of the generator's range.
GenerateNextAccess(is_write, rnd) ==
    LET r == generateNextAccess(wl, rnd) IN
    /\ rnd < wl.config_.page_range
    /\ wl' = r.w
    /\ received' =
          [accesses |-> IF r.called
                        THEN Append(received.accesses, r.page)
                        ELSE received.accesses,
           completions |-> received.completions + IF r.completed THEN 1 ELSE 0]
    /\ last' = Call("generateNextAccess", r.page, is_write, r.called)
    /\ UNCHANGED <<vmm, sim, reconfigs, written, script, threads, locks>>

NextGen ==
    \/ GenStart
    \/ GenStop
    \/ \E w \in BOOLEAN, rnd \in AccessPages : GenerateNextAccess(w, rnd)

SpecGen == InitGen /\ [][NextGen]_vars

\* ------------------------------------------- start and stop requests, threaded

\* serverLoop hands every accepted connection to a detached thread running
\* handleConnection; the request handler (VMMSimulator::handleAPIRequest) runs
\* on that thread.  The steps below are the statements of
\* handleStartSimulation, startSimulation and stopSimulation of main.cpp that
\* read or write state shared between threads; none of them holds a lock of
\* the simulator.
Connections == 1..MaxConnections

\* threads in this specification: conn[c] is the position of connection
\* thread c; workers[w] that of the w-th simulation thread created; handle is
\* the thread simulation_thread_ refers to (0: not joinable); terminated
\* tells that std::terminate was called (assignment to a joinable
\* std::thread); config_raced that WorkloadGenerator::setConfig wrote config_
\* while a simulation thread was inside generateNextAccess.
InitialThreads ==
    [conn |-> [c \in Connections |-> "accepted"],
     workers |-> << >>,
     handle |-> 0,
     terminated |-> FALSE,
     config_raced |-> FALSE]

\* The simulation threads that have not returned from their loop.
LiveWorkers == {w \in DOMAIN threads.workers : threads.workers[w] # "exited"}

At(c, pc) == ~threads.terminated /\ threads.conn[c] = pc

Goto(c, pc) == [threads EXCEPT !.conn[c] = pc]

\* main() after g_simulator->start(), no request received yet.
InitConc ==
    /\ vmm = startSimulation(NewVMM(NewSimulator.vmm_config_))
    /\ sim = NewSimulator
    /\ wl = NewWorkload(NewSimulator.workload_config_)
    /\ last = Call("startSimulation", -1, FALSE, TRUE)
    /\ reconfigs = 0
    /\ written = {}
    /\ script = NoScript
    /\ received = NothingReceived
    /\ threads = InitialThreads
    /\ locks = NoLocks

\* POST /simulate/start on connection c, up to vmm_->setConfig(vmm_config_).
ReceiveStart(c, mode, workload) ==
    /\ At(c, "accepted")
    /\ LET vcfg == [sim.vmm_config_ EXCEPT !.enable_ai_predictions = (mode # "ai_off")]
           wcfg == [sim.workload_config_ EXCEPT !.type = WorkloadTypeOf(workload)]
       IN /\ sim' = [sim EXCEPT !.vmm_config_ = vcfg, !.workload_config_ = wcfg]
          /\ vmm' = setConfig(Fresh(vmm), vcfg)
    /\ last' = Call("setConfig", -1, FALSE, TRUE)
    /\ reconfigs' = reconfigs + 1
    /\ written' = {}
    /\ threads' = Goto(c, "workload_setConfig")
    /\ UNCHANGED <<wl, script, received, locks>>

\* workload_gen_->setConfig(workload_config_)
WorkloadSetConfig(c) ==
    /\ At(c, "workload_setConfig")
    /\ wl' = [wl EXCEPT !.config_ = sim.workload_config_]
    /\ threads' = [Goto(c, "start_check") EXCEPT
                      !.config_raced =
                          @ \/ \E w \in DOMAIN threads.workers :
                                  threads.workers[w] = "inside"]
    /\ UNCHANGED <<vmm, sim, last, reconfigs, written, script, received, locks>>

\* startSimulation: if (!simulation_running_)
StartCheck(c) ==
    /\ At(c, "start_check")
    /\ threads' = Goto(c, IF ~sim.simulation_running_ THEN "start_flag" ELSE "responded")
    /\ UNCHANGED <<vmm, sim, wl, last, reconfigs, written, script, received, locks>>

\* simulation_running_ = true
StartFlag(c) ==
    /\ At(c, "start_flag")
    /\ sim' = [sim EXCEPT !.simulation_running_ = TRUE]
    /\ threads' = Goto(c, "start_workload")
    /\ UNCHANGED <<vmm, wl, last, reconfigs, written, script, received, locks>>

\* workload_gen_->start()
StartWorkload(c) ==
    /\ At(c, "start_workload")
    /\ wl' = Generator_start(wl)
    /\ threads' = Goto(c, "start_thread")
    /\ UNCHANGED <<vmm, sim, last, reconfigs, written, script, received, locks>>

\* simulation_thread_ = std::thread(...): the std::thread constructor starts
\* a new thread on the loop, then the move assignment stores it, or calls
\* std::terminate when simulation_thread_ is joinable.
StartThread(c) ==
    /\ At(c, "start_thread")
    /\ IF threads.handle # 0
       THEN /\ threads' = [threads EXCEPT !.workers = Append(@, "test"),
                                          !.terminated = TRUE]
            /\ sim' = sim
       ELSE /\ threads' = [Goto(c, "responded") EXCEPT
                              !.workers = Append(@, "test"),
                              !.handle = Len(threads.workers) + 1]
            /\ sim' = [sim EXCEPT !.thread = TRUE]
    /\ UNCHANGED <<vmm, wl, last, reconfigs, written, script, received, locks>>

\* POST /simulate/stop on connection c: stopSimulation's
\* if (simulation_running_)
ReceiveStop(c) ==
    /\ At(c, "accepted")
    /\ threads' = Goto(c, IF sim.simulation_running_ THEN "stop_flag" ELSE "responded")
    /\ UNCHANGED <<vmm, sim, wl, last, reconfigs, written, script, received, locks>>

\* simulation_running_ = false
StopFlag(c) ==
    /\ At(c, "stop_flag")
    /\ sim' = [sim EXCEPT !.simulation_running_ = FALSE]
    /\ threads' = Goto(c, "stop_workload")
    /\ UNCHANGED <<vmm, wl, last, reconfigs, written, script, received, locks>>

\* workload_gen_->stop()
StopWorkload(c) ==
    /\ At(c, "stop_workload")
    /\ wl' = Generator_stop(wl)
    /\ threads' = Goto(c, "stop_vmm")
    /\ UNCHANGED <<vmm, sim, last, reconfigs, written, script, received, locks>>

\* vmm_->stopSimulation()
StopVMM(c) ==
    /\ At(c, "stop_vmm")
    /\ vmm' = stopSimulation(Fresh(vmm))
    /\ last' = Call("stopSimulation", -1, FALSE, TRUE)
    /\ threads' = Goto(c, "stop_join")
    /\ UNCHANGED <<sim, wl, reconfigs, written, script, received, locks>>

\* if (simulation_thread_.joinable()) simulation_thread_.join(): returns once
\* the thread has left its loop.
StopJoin(c) ==
    /\ At(c, "stop_join")
    /\ IF threads.handle = 0
       THEN /\ threads' = Goto(c, "responded")
            /\ sim' = sim
       ELSE /\ threads.workers[threads.handle] = "exited"
            /\ threads' = [Goto(c, "responded") EXCEPT !.handle = 0]
            /\ sim' = [sim EXCEPT !.thread = FALSE]
    /\ UNCHANGED <<vmm, wl, last, reconfigs, written, script, received, locks>>

\* The loop condition of simulation thread w:
\* while (simulation_running_ && workload_gen_->isRunning()); when it holds
\* the thread calls generateNextAccess.
WorkerTest(w) ==
    /\ ~threads.terminated
    /\ w \in DOMAIN threads.workers
    /\ threads.workers[w] = "test"
    /\ threads' = [threads EXCEPT !.workers[w] =
                      IF sim.simulation_running_ /\ wl.running_
                      THEN "inside" ELSE "exited"]
    /\ UNCHANGED <<vmm, sim, wl, last, reconfigs, written, script, received, locks>>

\* generateNextAccess on simulation thread w, with the callbacks of
\* setupEventHandlers, then the sleep.
WorkerAccess(w, is_write, rnd) ==
    /\ ~threads.terminated
    /\ w \in DOMAIN threads.workers
    /\ threads.workers[w] = "inside"
    /\ IF wl.running_
       THEN /\ DoAccess(GeneratedPage(wl, rnd), is_write)
            /\ wl' = AdvanceWorkload(wl)
       ELSE UNCHANGED <<vmm, last, written, wl>>
    /\ threads' = [threads EXCEPT !.workers[w] = "test"]
    /\ UNCHANGED <<sim, reconfigs, script, received, locks>>

\* The requests a connection may carry.
StartBodies == {<<"ai_off", "sequential">>, <<"prefetch_only", "random">>}

NextConc ==
    \/ \E c \in Connections, b \in StartBodies : ReceiveStart(c, b[1], b[2])
    \/ \E c \in Connections : WorkloadSetConfig(c)
    \/ \E c \in Connections : StartCheck(c)
    \/ \E c \in Connections : StartFlag(c)
    \/ \E c \in Connections : StartWorkload(c)
    \/ \E c \in Connections : StartThread(c)
    \/ \E c \in Connections : ReceiveStop(c)
    \/ \E c \in Connections : StopFlag(c)
    \/ \E c \in Connections : StopWorkload(c)
    \/ \E c \in Connections : StopVMM(c)
    \/ \E c \in Connections : StopJoin(c)
    \/ \E w \in Connections : WorkerTest(w)
    \/ \E w \in Connections, is_write \in BOOLEAN, rnd \in AccessPages :
          WorkerAccess(w, is_write, rnd)

SpecConc == InitConc /\ [][NextConc]_vars

\* ------------------------------------------------- a concurrent metrics reader

\* GET /metrics is served on a connection thread while the simulation thread
\* calls accessPage.  getPageFaultRate and getAIHitRate take no lock: each
\* loads two atomic counters one after the other.  accessPage and
\* resetMetrics change every counter at most once per call, so the pairs of
\* values two loads can see are the same whether the calls are taken as one
\* step or statement by statement; they are taken as one step here.

\* threads in this specification: the reader's position in handleGetMetrics
\* and the values its loads returned.
IdleReader == [pc |-> "idle", total |-> 0, faults |-> 0, predictions |-> 0, hits |-> 0]

InitReader ==
    /\ vmm \in {NewVMM(c) : c \in Configs}
    /\ sim = NewSimulator
    /\ wl = NewWorkload(NewSimulator.workload_config_)
    /\ last = Call("VMM", -1, FALSE, TRUE)
    /\ reconfigs = 0
    /\ written = {}
    /\ script = NoScript
    /\ received = NothingReceived
    /\ threads = IdleReader
    /\ locks = NoLocks

\* getPageFaultRate: size_t total = metrics_.total_accesses.load(); with
\* total = 0 the rate is 0.0 and page_faults is not loaded.
LoadTotalAccesses ==
    /\ threads.pc = "idle"
    /\ LET total == vmm.metrics_.total_accesses IN
       threads' = [IdleReader EXCEPT
                      !.pc = IF total > 0 THEN "total_loaded" ELSE "fault_rate_returned",
                      !.total = total]
    /\ UNCHANGED <<vmm, sim, wl, last, reconfigs, written, script, received, locks>>

\* getPageFaultRate: metrics_.page_faults.load() / total
LoadPageFaults ==
    /\ threads.pc = "total_loaded"
    /\ threads' = [threads EXCEPT !.pc = "fault_rate_returned",
                                  !.faults = vmm.metrics_.page_faults]
    /\ UNCHANGED <<vmm, sim, wl, last, reconfigs, written, script, received, locks>>

\* getAIHitRate: size_t predictions = metrics_.ai_predictions.load()
LoadAIPredictions ==
    /\ threads.pc = "fault_rate_returned"
    /\ LET predictions == vmm.metrics_.ai_predictions IN
       threads' = [IdleReader EXCEPT
                      !.pc = IF predictions > 0 THEN "predictions_loaded"
                             ELSE "hit_rate_returned",
                      !.predictions = predictions]
    /\ UNCHANGED <<vmm, sim, wl, last, reconfigs, written, script, received, locks>>

\* getAIHitRate: metrics_.ai_hits.load() / predictions
LoadAIHits ==
    /\ threads.pc = "predictions_loaded"
    /\ threads' = [threads EXCEPT !.pc = "hit_rate_returned",
                                  !.hits = vmm.metrics_.ai_hits]
    /\ UNCHANGED <<vmm, sim, wl, last, reconfigs, written, script, received, locks>>

\* The response is sent; the next GET /metrics may come.
MetricsResponded ==
    /\ threads.pc = "hit_rate_returned"
    /\ threads' = IdleReader
    /\ UNCHANGED <<vmm, sim, wl, last, reconfigs, written, script, received, locks>>

NextReader ==
    \/ StartSimulation
    \/ \E p \in AccessPages, w \in BOOLEAN : AccessPage(p, w)
    \/ ResetMetrics
    \/ LoadTotalAccesses
    \/ LoadPageFaults
    \/ LoadAIPredictions
    \/ LoadAIHits
    \/ MetricsResponded

SpecReader == InitReader /\ [][NextReader]_vars

\* ------------------------------------------------------ the three mutexes

\* The threads of the running program that take a mutex: the simulation
\* thread (main.cpp startSimulation), which calls accessPage through the
\* generator's access callback; the connection threads of serverLoop, each
\* serving one GET /metrics or POST /simulate/stop and closing; and one
\* connection thread serving GET /events/stream.  POST /simulate/start takes the VMM mutex in setConfig
\* alone and creates the simulation thread, which SpecConc is about.
WorkloadThread == 0

StreamThread == MaxConnections + 1

LockThreads == 0..(MaxConnections + 1)

\* No thread owns the mutex.
NoOwner == -1

\* locks in this specification: vmm is VMM::mutex_, page_table is
\* PageTable::mutex_, event is SimpleHTTPServer::event_mutex_.
FreeLocks == [vmm |-> NoOwner, page_table |-> NoOwner, event |-> NoOwner]

\* threads in this specification, per thread: pc its position; calls the
\* calls the request still has to make; page and write the arguments of its
\* accessPage call; todo the events its VMM call has yet to hand to the
\* event callback.
ThreadAt(pc) == [pc |-> pc, calls |-> << >>, page |-> 0, write |-> FALSE, todo |-> << >>]

\* received in this specification: the server's events_ queue.
EmptyQueue == [events_ |-> << >>]

\* main.cpp buildEventJSON: the type and the message of the event.
buildEventJSON(event) == <<event.type, event.msg>>

\* main() after g_simulator->start() and one POST /simulate/start: the VMM
\* and the simulation thread run, the connection threads have no request.
InitLocks ==
    /\ vmm = Fresh(startSimulation(NewVMM(NewSimulator.vmm_config_)))
    /\ sim = [NewSimulator EXCEPT !.simulation_running_ = TRUE, !.thread = TRUE]
    /\ wl = Generator_start(NewWorkload(NewSimulator.workload_config_))
    /\ last = Call("startSimulation", -1, FALSE, TRUE)
    /\ reconfigs = 0
    /\ written = {}
    /\ script = NoScript
    /\ received = EmptyQueue
    /\ threads = [t \in LockThreads |->
                     ThreadAt(IF t = WorkloadThread THEN "loop" ELSE "accepted")]
    /\ locks = FreeLocks

\* The simulation thread: while (simulation_running_ && isRunning()) fails.
WorkerExits ==
    /\ threads[WorkloadThread].pc = "loop"
    /\ ~(sim.simulation_running_ /\ wl.running_)
    /\ threads' = [threads EXCEPT ![WorkloadThread].pc = "exited"]
    /\ UNCHANGED <<vmm, sim, wl, last, reconfigs, written, script, received, locks>>

\* The simulation thread: generateNextAccess calls the access callback,
\* which calls vmm_->accessPage(page, is_write).
WorkerCalls(page_number, is_write) ==
    /\ threads[WorkloadThread].pc = "loop"
    /\ sim.simulation_running_ /\ wl.running_
    /\ vmm.metrics_.total_accesses < MaxWorkerCalls
    /\ threads' = [threads EXCEPT
                      ![WorkloadThread] =
                          [ThreadAt("lock_vmm") EXCEPT !.calls = <<"accessPage">>,
                                                       !.page = page_number,
                                                       !.write = is_write]]
    /\ UNCHANGED <<vmm, sim, wl, last, reconfigs, written, script, received, locks>>

\* GET /metrics on connection c: of the getters handleGetMetrics calls,
\* getFreeFrameCount and getUsedFrameCount take the VMM mutex.
GetMetrics(c) ==
    /\ threads[c].pc = "accepted"
    /\ threads' = [threads EXCEPT
                      ![c] = [ThreadAt("lock_vmm") EXCEPT
                                 !.calls = <<"getFreeFrameCount", "getUsedFrameCount">>]]
    /\ UNCHANGED <<vmm, sim, wl, last, reconfigs, written, script, received, locks>>

\* POST /simulate/stop on connection c: stopSimulation of main.cpp up to
\* workload_gen_->stop(); with simulation_running_ false it does nothing and
\* the response is sent.
PostStop(c) ==
    /\ threads[c].pc = "accepted"
    /\ IF sim.simulation_running_
       THEN /\ sim' = [sim EXCEPT !.simulation_running_ = FALSE]
            /\ wl' = Generator_stop(wl)
            /\ threads' = [threads EXCEPT
                              ![c] = [ThreadAt("lock_vmm") EXCEPT
                                         !.calls = <<"stopSimulation", "join">>]]
       ELSE /\ threads' = [threads EXCEPT ![c].pc = "closed"]
            /\ UNCHANGED <<sim, wl>>
    /\ UNCHANGED <<vmm, last, reconfigs, written, script, received, locks>>

\* std::lock_guard<std::mutex> lock(mutex_) at the head of a VMM call, and
\* the call up to its first use of another mutex.  accessPage returns false
\* at once when the simulation does not run and goes to the page table
\* otherwise; the frame counters read frame_validity_; stopSimulation clears
\* the flag and emits its event.
VmmLock(t) ==
    /\ threads[t].pc = "lock_vmm"
    /\ locks.vmm = NoOwner
    /\ locks' = [locks EXCEPT !.vmm = t]
    /\ LET call == Head(threads[t].calls) IN
       CASE call = "accessPage" /\ vmm.simulation_running_ ->
                /\ threads' = [threads EXCEPT ![t].pc = "lock_page_table"]
                /\ UNCHANGED <<vmm, last, written>>
         [] call = "accessPage" /\ ~vmm.simulation_running_ ->
                /\ ServeAccess(threads[t].page, threads[t].write)
                /\ threads' = [threads EXCEPT ![t].pc = "emit"]
         [] call = "stopSimulation" ->
                /\ vmm' = stopSimulation(Fresh(vmm))
                /\ last' = Call("stopSimulation", -1, FALSE, TRUE)
                /\ threads' = [threads EXCEPT
                                  ![t].pc = "emit",
                                  ![t].todo = vmm'.events]
                /\ UNCHANGED written
         [] OTHER ->
                /\ threads' = [threads EXCEPT ![t].pc = "emit"]
                /\ UNCHANGED <<vmm, last, written>>
    /\ UNCHANGED <<sim, wl, reconfigs, script, received>>

\* std::lock_guard<std::mutex> lock(mutex_) at the head of a PageTable
\* member function.  The page-table calls of one accessPage are taken as one
\* critical section, entered from inside the VMM call.
PageTableLock(t) ==
    /\ threads[t].pc = "lock_page_table"
    /\ locks.page_table = NoOwner
    /\ locks' = [locks EXCEPT !.page_table = t]
    /\ threads' = [threads EXCEPT ![t].pc = "page_table"]
    /\ UNCHANGED <<vmm, sim, wl, last, reconfigs, written, script, received>>

\* The PageTable member function returns; the access has taken effect and
\* its events are those emitEvent is called for.
PageTableUnlock(t) ==
    /\ threads[t].pc = "page_table"
    /\ ServeAccess(threads[t].page, threads[t].write)
    /\ locks' = [locks EXCEPT !.page_table = NoOwner]
    /\ threads' = [threads EXCEPT ![t].pc = "emit", ![t].todo = vmm'.events]
    /\ UNCHANGED <<sim, wl, reconfigs, script, received>>

\* SimpleHTTPServer::emitEvent with the event pushed and event_mutex_ kept.
EventPush_KeepsMutex(t) ==
    /\ threads[t].pc = "push"
    /\ received' = [received EXCEPT
                       !.events_ = Append(@, buildEventJSON(Head(threads[t].todo)))]
    /\ threads' = [threads EXCEPT ![t].pc = "emit", ![t].todo = Tail(@)]
    /\ UNCHANGED <<vmm, sim, wl, last, reconfigs, written, script, locks>>

\* VMM::emitEvent -> event callback -> SimpleHTTPServer::emitEvent:
\* std::lock_guard<std::mutex> lock(event_mutex_)
EventLock(t) ==
    /\ threads[t].pc = "emit"
    /\ threads[t].todo # << >>
    /\ locks.event = NoOwner
    /\ locks' = [locks EXCEPT !.event = t]
    /\ threads' = [threads EXCEPT ![t].pc = "push"]
    /\ UNCHANGED <<vmm, sim, wl, last, reconfigs, written, script, received>>

\* SimpleHTTPServer::emitEvent: events_.push(event_data), the lock_guard's
\* scope ends, event_cv_.notify_all().
EventPush(t) ==
    /\ threads[t].pc = "push"
    /\ received' = [received EXCEPT
                       !.events_ = Append(@, buildEventJSON(Head(threads[t].todo)))]
    /\ locks' = [locks EXCEPT !.event = NoOwner]
    /\ threads' = [threads EXCEPT ![t].pc = "emit", ![t].todo = Tail(@)]
    /\ UNCHANGED <<vmm, sim, wl, last, reconfigs, written, script>>

\* The VMM call returns and its lock_guard releases mutex_; the thread goes
\* on to its next call.
VmmUnlock(t) ==
    /\ threads[t].pc = "emit"
    /\ threads[t].todo = << >>
    /\ locks' = [locks EXCEPT !.vmm = NoOwner]
    /\ LET rest == Tail(threads[t].calls) IN
       threads' = [threads EXCEPT
                      ![t] = IF t = WorkloadThread THEN ThreadAt("loop")
                             ELSE IF rest = << >> THEN ThreadAt("closed")
                             ELSE [@ EXCEPT !.calls = rest,
                                            !.pc = IF Head(rest) = "join" THEN "join"
                                                   ELSE "lock_vmm"]]
    /\ UNCHANGED <<vmm, sim, wl, last, reconfigs, written, script, received>>

\* stopSimulation of main.cpp: simulation_thread_.join() returns once the
\* simulation thread has left its loop.
Join(c) ==
    /\ threads[c].pc = "join"
    /\ threads[WorkloadThread].pc = "exited"
    /\ sim' = [sim EXCEPT !.thread = FALSE]
    /\ threads' = [threads EXCEPT ![c] = ThreadAt("closed")]
    /\ UNCHANGED <<vmm, wl, last, reconfigs, written, script, received, locks>>

\* GET /events/stream: handleConnection calls handleSSEConnection, which
\* sends the headers and enters while (running_).
StreamConnects ==
    /\ threads[StreamThread].pc = "accepted"
    /\ threads' = [threads EXCEPT ![StreamThread].pc = "sse_loop"]
    /\ UNCHANGED <<vmm, sim, wl, last, reconfigs, written, script, received, locks>>

\* handleSSEConnection: std::unique_lock<std::mutex> lock(event_mutex_) and
\* event_cv_.wait(lock, pred): with events_ empty the thread releases
\* event_mutex_ again and blocks, otherwise it goes on holding it.
StreamLock ==
    /\ threads[StreamThread].pc = "sse_loop"
    /\ locks.event = NoOwner
    /\ IF received.events_ = << >>
       THEN /\ threads' = [threads EXCEPT ![StreamThread].pc = "sse_blocked"]
            /\ UNCHANGED locks
       ELSE /\ threads' = [threads EXCEPT ![StreamThread].pc = "sse_drain"]
            /\ locks' = [locks EXCEPT !.event = StreamThread]
    /\ UNCHANGED <<vmm, sim, wl, last, reconfigs, written, script, received>>

\* event_cv_.wait returns: the thread was notified, has event_mutex_ again
\* and finds events_ not empty.
StreamWakes ==
    /\ threads[StreamThread].pc = "sse_blocked"
    /\ received.events_ # << >>
    /\ locks.event = NoOwner
    /\ locks' = [locks EXCEPT !.event = StreamThread]
    /\ threads' = [threads EXCEPT ![StreamThread].pc = "sse_drain"]
    /\ UNCHANGED <<vmm, sim, wl, last, reconfigs, written, script, received>>

\* while (!events_.empty()): front, pop and send, event_mutex_ held.
StreamSends ==
    /\ threads[StreamThread].pc = "sse_drain"
    /\ received.events_ # << >>
    /\ received' = [received EXCEPT !.events_ = Tail(@)]
    /\ UNCHANGED <<vmm, sim, wl, last, reconfigs, written, script, threads, locks>>

\* events_ is empty: the unique_lock's scope ends and the loop starts over.
StreamUnlock ==
    /\ threads[StreamThread].pc = "sse_drain"
    /\ received.events_ = << >>
    /\ locks' = [locks EXCEPT !.event = NoOwner]
    /\ threads' = [threads EXCEPT ![StreamThread].pc = "sse_loop"]
    /\ UNCHANGED <<vmm, sim, wl, last, reconfigs, written, script, received>>

\* The steps a thread takes by itself once it has its request or its call.
Proceeds(t) ==
    \/ VmmLock(t)
    \/ PageTableLock(t)
    \/ PageTableUnlock(t)
    \/ EventLock(t)
    \/ EventPush(t)
    \/ VmmUnlock(t)

StreamProceeds == StreamLock \/ StreamWakes \/ StreamSends \/ StreamUnlock

NextLocks ==
    \/ \E p \in AccessPages, w \in BOOLEAN : WorkerCalls(p, w)
    \/ WorkerExits
    \/ \E c \in Connections : GetMetrics(c)
    \/ \E c \in Connections : PostStop(c)
    \/ \E t \in LockThreads : VmmLock(t)
    \/ \E t \in LockThreads : PageTableLock(t)
    \/ \E t \in LockThreads : PageTableUnlock(t)
    \/ \E t \in LockThreads : EventLock(t)
    \/ \E t \in LockThreads : EventPush(t)
    \/ \E t \in LockThreads : VmmUnlock(t)
    \/ \E c \in Connections : Join(c)
    \/ StreamConnects
    \/ StreamLock
    \/ StreamWakes
    \/ StreamSends
    \/ StreamUnlock

SpecLocks == InitLocks /\ [][NextLocks]_vars

\* The simulation thread and the stream thread take the steps they can take:
\* the scheduler starves neither and send() returns.  Nothing is asked of the
\* request threads, and no request, connection or further access need come.
FairLocks ==
    /\ WF_vars(Proceeds(WorkloadThread))
    /\ WF_vars(StreamProceeds)

SpecLocksFair == SpecLocks /\ FairLocks

\* ----------------------------------------------------------------- claims

ValidPages == getValidPages(vmm.pages_)

OccupiedFrames == {f \in DOMAIN vmm.frame_validity_ : vmm.frame_validity_[f]}

\* Some resident page was brought in by evicting another one.
EvictionHappened == \E q \in DOMAIN vmm.pages_ : ~vmm.pages_[q].valid

\* C1: after any sequence of accessPage calls residency is a bijection: every
\* valid page's frame is occupied and names that page, every occupied frame
\* names a valid page whose frame number is that frame, and no two distinct
\* valid pages share a frame.
C1_ResidencyBijection ==
    /\ \A p \in ValidPages :
          LET f == vmm.pages_[p].frame_number IN
          /\ f \in DOMAIN vmm.frame_validity_
          /\ vmm.frame_validity_[f]
          /\ vmm.frame_to_page_[f] = p
    /\ \A f \in OccupiedFrames :
          /\ isPageValid(vmm.pages_, vmm.frame_to_page_[f])
          /\ vmm.pages_[vmm.frame_to_page_[f]].frame_number = f
    /\ \A p, q \in ValidPages :
          p # q => vmm.pages_[p].frame_number # vmm.pages_[q].frame_number

\* Two pages are resident after an eviction, with predictions enabled.
C1_Witness ==
    /\ Cardinality(ValidPages) = 2
    /\ EvictionHappened
    /\ vmm.config_.enable_ai_predictions
    /\ vmm.metrics_.ai_predictions > 0

\* C2: between operations used + free frames = total_frames, and the used
\* frame count equals the number of valid pages, at most total_frames.
C2_FrameAccounting ==
    /\ getUsedFrameCount(vmm) + getFreeFrameCount(vmm) = vmm.config_.total_frames
    /\ getUsedFrameCount(vmm) = Cardinality(ValidPages)
    /\ Cardinality(ValidPages) <= vmm.config_.total_frames

\* Every frame is in use and a victim has been replaced.
C2_Witness ==
    /\ getUsedFrameCount(vmm) = vmm.config_.total_frames
    /\ vmm.config_.total_frames = MaxFrames
    /\ EvictionHappened

\* C3: CLOCK's selectVictimFrame returns a victim (an occupied frame) whenever
\* some frame is occupied, whatever the reference bits and the hand, and
\* returns none only when no frame is occupied.
C3_ClockFindsVictim ==
    vmm.repl.policy = "CLOCK" =>
        LET v == CLOCK_selectVictimFrame(vmm.repl, vmm.frame_validity_).victim IN
        IF OccupiedFrames = {} THEN v = -1 ELSE v \in OccupiedFrames

\* The pages that the step evicts.
EvictedByStep == {v \in ValidPages : ~isPageValid(vmm'.pages_, v)}

\* C4: an eviction increments swap_outs if and only if the evicted page was
\* written since it was last installed.
C4_SwapOutIffWritten ==
    [][\A v \in EvictedByStep :
          last'.op = "accessPage" =>
             /\ vmm'.metrics_.swap_outs =
                   vmm.metrics_.swap_outs + (IF v \in written THEN 1 ELSE 0)]_vars

\* C5: after every accessPage call the modified bit of each resident page
\* equals the dirty bit of its frame.
C5_ModifiedMatchesDirty ==
    \A p \in ValidPages :
        vmm.pages_[p].modified = vmm.frame_modified_[vmm.pages_[p].frame_number]

\* The pages the "Prefetched" events of the VMM record s name.
PrefetchedPages(s) ==
    {s.events[i].args[1] :
        i \in {j \in 1..Len(s.events) : s.events[j].msg = "Prefetched"}}

\* The VMM right after the prefetch step of accessPage(page_number, _).
AfterPrefetch(page_number) ==
    PrefetchStep(updateRecentAccesses(
                     [Fresh(vmm) EXCEPT !.metrics_.total_accesses = @ + 1],
                     page_number),
                 page_number)

\* C6: every page the prefetch step of accessPage prefetches is installed:
\* right after the step it is valid in the page table and bound to an
\* occupied frame that names it.
C6_PrefetchInstalls ==
    vmm.simulation_running_ =>
        \A p \in AccessPages :
            LET s == AfterPrefetch(p) IN
            \A q \in PrefetchedPages(s) :
                /\ isPageValid(s.pages_, q)
                /\ getFrameNumber(s.pages_, q) \in DOMAIN s.frame_validity_
                /\ s.frame_validity_[getFrameNumber(s.pages_, q)]
                /\ s.frame_to_page_[getFrameNumber(s.pages_, q)] = q

\* C7: right after setConfig no page is valid, every frame is unoccupied,
\* names no page and is clean, and the policy has no recorded history.
C7_SetConfigRebuilds ==
    last.op = "setConfig" =>
        /\ ValidPages = {}
        /\ \A f \in DOMAIN vmm.frame_validity_ :
              /\ ~vmm.frame_validity_[f]
              /\ vmm.frame_to_page_[f] = -1
              /\ ~vmm.frame_modified_[f]
        /\ vmm.repl = NewReplacement(vmm.config_.replacement_policy,
                                     vmm.config_.total_frames)
        /\ getUsedFrameCount(vmm) = Cardinality(ValidPages)

\* C8: after setConfig, every serviced access to an in-range page leaves that
\* page resident at the end of the access, under each of the three policies.
C8_AccessAfterSetConfigInstalls ==
    (reconfigs > 0 /\ last.op = "accessPage" /\ last.ret) =>
        isPageValid(vmm.pages_, last.page)

\* C9: while the simulation is not running, accessPage returns false, emits
\* no event and changes no field of the VMM.
C9_RefusedAccessChangesNothing ==
    [][(last'.op = "accessPage" /\ ~vmm.simulation_running_) =>
          /\ last'.ret = FALSE
          /\ vmm'.events = << >>
          /\ vmm' = Fresh(vmm)]_vars

\* An access was refused after the simulation had serviced accesses and was
\* stopped.
C9_Witness ==
    /\ last.op = "accessPage"
    /\ ~last.ret
    /\ ~vmm.simulation_running_
    /\ vmm.metrics_.page_faults > 0
    /\ ValidPages # {}

\* C10: after POST /simulate/start has been handled, the accesses the workload
\* produces are serviced (accessPage returns true), whatever start and stop
\* requests came before.
C10_WorkloadAccessesServiced ==
    last.op = "accessPage" => last.ret

\* The driver has issued every access of `pages` to a VMM with total_frames
\* frames under `policy`, predictions off.
Replayed(pages, total_frames, policy) ==
    /\ script.pages = pages
    /\ script.pos = Len(pages)
    /\ vmm.config_.total_frames = total_frames
    /\ vmm.config_.replacement_policy = policy
    /\ ~vmm.config_.enable_ai_predictions

\* C11: after the twelve reads of the reference string on three frames under
\* FIFO, predictions off, page_faults = 9, swap_ins = 9 and swap_outs = 0.
C11_FifoReferenceCounters ==
    (Replayed(ReferenceString, 3, "FIFO") /\ ~script.writes) =>
        /\ vmm.metrics_.page_faults = 9
        /\ vmm.metrics_.swap_ins = 9
        /\ vmm.metrics_.swap_outs = 0

\* The reference string has been read to its end under FIFO.
C11_Witness ==
    /\ Replayed(ReferenceString, 3, "FIFO")
    /\ ~script.writes
    /\ vmm.metrics_.total_accesses = Len(ReferenceString)
    /\ EvictionHappened

\* C12: after the reference string on three frames under FIFO, predictions
\* off, the resident pages are exactly 3, 4 and 5.
C12_FifoReferenceResidents ==
    Replayed(ReferenceString, 3, "FIFO") => ValidPages = {3, 4, 5}

\* C13: after the reference string on three frames under LRU, predictions
\* off, page_faults = 10.
C13_LruReferenceFaults ==
    Replayed(ReferenceString, 3, "LRU") => vmm.metrics_.page_faults = 10

\* The reference string has been replayed to its end under LRU, with hits
\* among the accesses.
C13_Witness ==
    /\ Replayed(ReferenceString, 3, "LRU")
    /\ vmm.metrics_.total_accesses = Len(ReferenceString)
    /\ vmm.metrics_.page_faults < vmm.metrics_.total_accesses
    /\ vmm.repl.current_time = Len(ReferenceString)

\* C14: after the twelve reads of the reference string on three frames under
\* CLOCK (hand starting at frame 0), predictions off, page_faults is between
\* 9 and 10.
C14_ClockReferenceFaults ==
    (Replayed(ReferenceString, 3, "CLOCK") /\ ~script.writes) =>
        /\ vmm.metrics_.page_faults >= 9
        /\ vmm.metrics_.page_faults <= 10

\* C15: after writes to pages 1, 2, 3 on two frames under CLOCK, swap_outs = 1
\* and swap_ins = 3, and page 3 is resident.
C15_ClockDirtyVictim ==
    (Replayed(ShortString, 2, "CLOCK") /\ script.writes) =>
        /\ vmm.metrics_.swap_outs = 1
        /\ vmm.metrics_.swap_ins = 3
        /\ isPageValid(vmm.pages_, 3)

\* The driver is replaying the sequential workload on four frames under LRU,
\* predictions off.
SequentialUnderLru ==
    /\ script.pages = SequentialString
    /\ vmm.config_.total_frames = 4
    /\ vmm.config_.replacement_policy = "LRU"
    /\ ~vmm.config_.enable_ai_predictions

\* C16 as stated: after the 1000 accesses of the sequential workload over
\* ten pages on four frames under LRU, predictions off, page_faults = 10,
\* swap_outs = 0 when all accesses are reads, and ai_hits = 0.
C16_SequentialColdMissesOnly ==
    (SequentialUnderLru /\ script.pos = Len(SequentialString)) =>
        /\ vmm.metrics_.page_faults = 10
        /\ ~script.writes => vmm.metrics_.swap_outs = 0
        /\ vmm.metrics_.ai_hits = 0

\* C16 amended: in that run every access faults (ten pages cycle through
\* four frames), so page_faults equals the number of accesses issued, 1000
\* after the last one; swap_outs = 0 when all accesses are reads, and
\* ai_hits = 0.
C16_SequentialEveryAccessFaults ==
    SequentialUnderLru =>
        /\ vmm.metrics_.page_faults = script.pos
        /\ vmm.metrics_.total_accesses = script.pos
        /\ ~script.writes => vmm.metrics_.swap_outs = 0
        /\ vmm.metrics_.ai_hits = 0

\* The sequential workload has been read to its end under LRU.
C16_Witness ==
    /\ SequentialUnderLru
    /\ ~script.writes
    /\ script.pos = Len(SequentialString)
    /\ vmm.metrics_.page_faults = 1000
    /\ ValidPages = {6, 7, 8, 9}

\* The pages accessed so far (recent_accesses_ holds every serviced access of
\* a run shorter than MAX_RECENT_ACCESSES).
AccessedPages == {vmm.recent_accesses_[i] : i \in 1..Len(vmm.recent_accesses_)}

\* C17: under LRU with predictions off, while the pages accessed so far are
\* no more than total_frames, each of them has faulted exactly once (so a
\* further access to any of them does not fault), all of them are resident
\* and nothing has been evicted.
C17_LruWorkingSetFits ==
    (/\ vmm.config_.replacement_policy = "LRU"
     /\ ~vmm.config_.enable_ai_predictions
     /\ Cardinality(AccessedPages) <= vmm.config_.total_frames) =>
        /\ vmm.metrics_.page_faults = Cardinality(AccessedPages)
        /\ vmm.metrics_.swap_ins = Cardinality(AccessedPages)
        /\ vmm.metrics_.swap_outs = 0
        /\ ValidPages = AccessedPages
        /\ ~EvictionHappened

\* A working set that fills every frame has been warmed up and accessed
\* again without a fault.
C17_Witness ==
    /\ vmm.config_.replacement_policy = "LRU"
    /\ ~vmm.config_.enable_ai_predictions
    /\ vmm.config_.total_frames = MaxFrames
    /\ Cardinality(AccessedPages) = MaxFrames
    /\ Len(vmm.recent_accesses_) > MaxFrames
    /\ vmm.metrics_.total_accesses > vmm.metrics_.page_faults
    /\ last.op = "accessPage"
    /\ last.ret

\* The VMM after the first n accesses of the script, had the script been
\* replayed on the started VMM s.
RECURSIVE RunScript(_, _)
RunScript(s, n) ==
    IF n = 0
    THEN s
    ELSE accessPage(Fresh(RunScript(s, n - 1)), script.pages[n], script.writes).s

\* What a caller can observe of a VMM apart from its policy: the counters,
\* the resident pages, and the events of the last operation.
Observed(s) ==
    [metrics |-> s.metrics_,
     resident |-> getValidPages(s.pages_),
     events |-> s.events]

\* C18: with a single frame and predictions off the three policies behave
\* identically on every access sequence: after each access the counters, the
\* resident page and the events of the access are those the same sequence
\* produces under each other policy, and a serviced access leaves exactly the
\* accessed page resident.
C18_SingleFramePoliciesAgree ==
    (/\ vmm.config_.total_frames = 1
     /\ ~vmm.config_.enable_ai_predictions
     /\ script.pos > 0) =>
        /\ \A policy \in Policies :
              Observed(vmm) =
                 Observed(RunScript(
                     startSimulation(NewVMM(
                         [vmm.config_ EXCEPT !.replacement_policy = policy])),
                     script.pos))
        /\ ValidPages = {last.page}

\* C19: ai_hits <= ai_predictions after any sequence of public operations.
C19_HitsAtMostPredictions ==
    vmm.metrics_.ai_hits <= vmm.metrics_.ai_predictions

\* The pages in recent_predictions_ of the VMM record s.
PredictedPages(s) == {s.recent_predictions_[i] : i \in 1..Len(s.recent_predictions_)}

\* C20: ai_hits grows only in an accessPage call that finds its page
\* resident and among the recent predictions, and then by one; no other
\* operation (setAIPredictions included) and no faulting access increments it.
C20_HitsOnlyOnPredictedHit ==
    [][vmm'.metrics_.ai_hits > vmm.metrics_.ai_hits =>
          /\ last'.op = "accessPage"
          /\ last'.ret
          /\ isPageValid(vmm.pages_, last'.page)
          /\ last'.page \in PredictedPages(AfterPrefetch(last'.page))
          /\ vmm'.metrics_.page_faults = vmm.metrics_.page_faults
          /\ vmm'.metrics_.ai_hits = vmm.metrics_.ai_hits + 1]_vars

\* The types of the events of the operation that ran last, in order.
EventTypes == [i \in 1..Len(vmm.events) |-> vmm.events[i].type]

\* The number of events of type AI at the front of the type sequence `types`.
RECURSIVE LeadingAI(_)
LeadingAI(types) ==
    IF types # << >> /\ Head(types) = "AI" THEN 1 + LeadingAI(Tail(types)) ELSE 0

\* The event types of an access once the AI events at its front are dropped.
AfterAIEvents == SubSeq(EventTypes, LeadingAI(EventTypes) + 1, Len(EventTypes))

\* C21: the events of every serviced access are, in order, zero or more AI
\* events, then either one ACCESS event or FAULT, optional SWAP_OUT, optional
\* EVICT, SWAP_IN: no SWAP_IN precedes the FAULT and every FAULT is followed
\* by a SWAP_IN.
C21_EventOrder ==
    (last.op = "accessPage" /\ last.ret) =>
        AfterAIEvents \in
            {<<"ACCESS">>,
             <<"FAULT", "SWAP_IN">>,
             <<"FAULT", "EVICT", "SWAP_IN">>,
             <<"FAULT", "SWAP_OUT", "SWAP_IN">>,
             <<"FAULT", "SWAP_OUT", "EVICT", "SWAP_IN">>}

\* The page numbers of the VMM's page table, [0, total_pages).
InRange(page_number) ==
    page_number >= 0 /\ page_number < vmm.config_.total_pages

\* C22: a serviced accessPage call whose page number is outside
\* [0, total_pages) is rejected: it emits an ERROR event, makes no page valid,
\* allocates and evicts no frame, and leaves residency a bijection.
C22_OutOfRangeRejected ==
    [][(last'.op = "accessPage" /\ last'.ret /\ ~InRange(last'.page)) =>
          /\ \E i \in 1..Len(vmm'.events) : vmm'.events[i].type = "ERROR"
          /\ getValidPages(vmm'.pages_) = ValidPages
          /\ vmm'.frame_validity_ = vmm.frame_validity_
          /\ vmm'.frame_to_page_ = vmm.frame_to_page_
          /\ C1_ResidencyBijection']_vars

\* C23: swap_ins grows by exactly one for each page that becomes resident in
\* an accessPage call (through the fault or through a prefetch), and not
\* otherwise.
C23_SwapInsCountInstalls ==
    [][last'.op = "accessPage" =>
          vmm'.metrics_.swap_ins - vmm.metrics_.swap_ins =
             Cardinality(getValidPages(vmm'.pages_) \ ValidPages)]_vars

\* The VMM s after the accesses of `accesses`, a sequence of
\* [page, write] records, in order.
RECURSIVE RunAccesses(_, _)
RunAccesses(s, accesses) ==
    IF accesses = << >>
    THEN s
    ELSE RunAccesses(
             accessPage(Fresh(s), Head(accesses).page, Head(accesses).write).s,
             Tail(accesses))

\* The access sequences of one or two accesses.
ShortAccessSeqs ==
    LET A == [page : AccessPages, write : BOOLEAN] IN
    {<<a>> : a \in A} \cup {<<a, b>> : a, b \in A}

\* The growth of each metric from the record m0 to the record m1.
MetricIncrements(m0, m1) == [k \in DOMAIN m0 |-> m1[k] - m0[k]]

\* C24: after setConfig re-applies the configuration the VMM already has,
\* every access sequence produces the metric increments it produces on a
\* freshly constructed VMM with that configuration.
C24_ReapplyConfigIdempotent ==
    [][(last'.op = "setConfig" /\ vmm'.config_ = vmm.config_) =>
          \A S \in ShortAccessSeqs :
              MetricIncrements(vmm'.metrics_,
                               RunAccesses(startSimulation(vmm'), S).metrics_)
              = MetricIncrements(ZeroMetrics,
                                 RunAccesses(startSimulation(NewVMM(vmm'.config_)),
                                             S).metrics_)]_vars

\* C25 as stated: over accessPage calls with no configuration reset,
\* swap_ins - swap_outs equals the change in used frames since construction
\* (when none was used).
C25_SwapBalanceEqualsUsedFrames ==
    vmm.metrics_.swap_ins - vmm.metrics_.swap_outs = getUsedFrameCount(vmm)

\* C25 amended: swap_ins - swap_outs is at least the number of used frames
\* (every used frame was filled by a counted swap-in, and a swap-out is
\* counted only in an eviction, which frees the frame it refills).
C25_SwapBalanceAtLeastUsedFrames ==
    vmm.metrics_.swap_ins - vmm.metrics_.swap_outs >= getUsedFrameCount(vmm)

\* A clean page has been evicted: the balance exceeds the used frames.
C25_Witness ==
    /\ EvictionHappened
    /\ vmm.metrics_.swap_outs = 0
    /\ getUsedFrameCount(vmm) = vmm.config_.total_frames
    /\ vmm.metrics_.swap_ins > getUsedFrameCount(vmm)
    /\ ~vmm.config_.enable_ai_predictions

\* The last n elements of seq, all of it when it is shorter.
LastN(seq, n) == IF Len(seq) > n THEN SubSeq(seq, Len(seq) - n + 1, Len(seq)) ELSE seq

\* The pages of the "Predicted" event among the events `events`, none when
\* no prediction was made.
PredictedIn(events) ==
    IF \E i \in 1..Len(events) : events[i].msg = "Predicted"
    THEN events[CHOOSE i \in 1..Len(events) : events[i].msg = "Predicted"].args
    ELSE << >>

\* An "AI HIT" event is among the events `events`.
HitAttributedIn(events) == \E i \in 1..Len(events) : events[i].msg = "AI HIT"

\* C26: after every accessPage call the recent-access window holds the last
\* min(n, 100) accessed pages in access order, and the recent-predictions
\* list is the previous list followed by the predictions of the call, cut to
\* its last 50 entries (the oldest dropped first), less the entry a hit is
\* attributed to.
C26_BoundedWindows ==
    [][last'.op = "accessPage" =>
          LET kept == LastN(vmm.recent_predictions_ \o PredictedIn(vmm'.events),
                            MAX_RECENT_PREDICTIONS)
          IN /\ vmm'.recent_accesses_ =
                   LastN(SubSeq(script.pages, 1, script'.pos), MAX_RECENT_ACCESSES)
             /\ Len(vmm'.recent_accesses_) <= MAX_RECENT_ACCESSES
             /\ Len(vmm'.recent_predictions_) <= MAX_RECENT_PREDICTIONS
             /\ vmm'.recent_predictions_ =
                   IF HitAttributedIn(vmm'.events)
                   THEN EraseAt(kept, FindFirst(kept, last'.page))
                   ELSE kept]_vars

\* Both windows are full and have dropped entries.
C26_Witness ==
    /\ Len(vmm.recent_accesses_) = MAX_RECENT_ACCESSES
    /\ vmm.metrics_.total_accesses > MAX_RECENT_ACCESSES
    /\ Len(vmm.recent_predictions_) = MAX_RECENT_PREDICTIONS
    /\ 3 * vmm.metrics_.ai_predictions > MAX_RECENT_PREDICTIONS
    /\ vmm.metrics_.ai_hits > 0

\* The prediction C27 states for the window <<p1, p2, p3>> and P pages, with
\* mod the remainder in [0, P): [pages, confidence in percent].
StatedPrediction(p1, p2, p3, P) ==
    IF p3 = p2 + 1 /\ p2 = p1 + 1
    THEN [pages |-> <<(p3 + 1) % P, (p3 + 2) % P, (p3 + 3) % P>>,
          confidence |-> 85]
    ELSE IF p3 - p2 = p2 - p1
    THEN LET d == p3 - p2 IN
         [pages |-> <<(p3 + d) % P, (p3 + 2 * d) % P, (p3 + 3) % P>>,
          confidence |-> 70]
    ELSE LET base == (p3 \div 10) * 10 IN
         [pages |-> <<(base + (((p3 % 10) + 1) % 10)) % P,
                      (base + (((p3 % 10) + 2) % 10)) % P,
                      (p3 + 3) % P>>,
          confidence |-> 60]

\* C27: whenever an access makes a prediction, the predicted pages and the
\* confidence are those stated for the last three pages of the window, and
\* every predicted page lies in [0, total_pages).
C27_PredictorValues ==
    (last.op = "accessPage" /\ PredictedIn(vmm.events) # << >>) =>
        LET n == Len(vmm.recent_accesses_)
            stated == StatedPrediction(vmm.recent_accesses_[n - 2],
                                       vmm.recent_accesses_[n - 1],
                                       vmm.recent_accesses_[n],
                                       vmm.config_.total_pages)
            predicted == PredictedIn(vmm.events)
        IN /\ predicted = stated.pages
           /\ vmm.ai_prediction_confidence_ = stated.confidence
           /\ \A i \in 1..Len(predicted) :
                 predicted[i] >= 0 /\ predicted[i] < vmm.config_.total_pages

\* The VMM record t evicted nothing relative to `vmm`: it holds the same page
\* table and policy state, counted no swap-out and emitted no eviction event;
\* and with no frame free in `vmm` its frame arrays and swap_ins are those of
\* `vmm` as well.
EvictsNothing(t) ==
    /\ t.pages_ = vmm.pages_
    /\ t.repl = vmm.repl
    /\ t.metrics_.swap_outs = vmm.metrics_.swap_outs
    /\ \A i \in 1..Len(t.events) : t.events[i].type \notin {"EVICT", "SWAP_OUT"}
    /\ getFreeFrameCount(vmm) = 0 =>
          /\ t.frame_validity_ = vmm.frame_validity_
          /\ t.frame_to_page_ = vmm.frame_to_page_
          /\ t.frame_modified_ = vmm.frame_modified_
          /\ t.metrics_.swap_ins = vmm.metrics_.swap_ins

\* C28: the prefetch step of accessPage, for every page accessed, and
\* setAIPredictions, for every list, evict nothing and select no victim; when
\* no frame is free they leave the page table, the frame arrays, swap_ins and
\* swap_outs unchanged.
C28_PrefetchNeverEvicts ==
    /\ vmm.simulation_running_ =>
          \A p \in AccessPages : EvictsNothing(AfterPrefetch(p))
    /\ \A l \in PredictionLists : EvictsNothing(setAIPredictions(Fresh(vmm), l))

\* Every frame is in use and the prefetch step of the next access predicts a
\* page that is neither resident nor the page accessed.
C28_Witness ==
    /\ vmm.simulation_running_
    /\ vmm.config_.enable_ai_predictions
    /\ getFreeFrameCount(vmm) = 0
    /\ vmm.config_.total_frames = MaxFrames
    /\ \E p \in AccessPages :
          LET predicted == PredictedIn(AfterPrefetch(p).events) IN
          \E i \in 1..Len(predicted) :
              predicted[i] # p /\ ~isPageValid(vmm.pages_, predicted[i])

\* The script is one of the short ones (the sequential run is left out).
ShortScript == Len(script.pages) <= Len(ReferenceString)

\* The started VMM the script was first replayed on.
ScriptStart == startSimulation(NewVMM(vmm.config_))

\* The access of the script, up to the current position, that installed the
\* resident page p: the last one before which p was not resident and after
\* which it was.
InstalledAt(p) ==
    LET installs ==
          {i \in 1..script.pos :
              /\ ~isPageValid(RunScript(ScriptStart, i - 1).pages_, p)
              /\ isPageValid(RunScript(ScriptStart, i).pages_, p)}
    IN CHOOSE i \in installs : \A j \in installs : j <= i

\* C29: under FIFO every eviction performed by accessPage removes the page
\* installed earliest among the resident pages.
C29_FifoEvictsEarliestInstalled ==
    [][(/\ vmm.config_.replacement_policy = "FIFO"
        /\ ShortScript
        /\ last'.op = "accessPage") =>
          \A v \in EvictedByStep : \A q \in ValidPages :
              InstalledAt(v) <= InstalledAt(q)]_vars

\* The frame LRU selects for the ticks `ticks` and the occupancy
\* frame_validity is the occupied frame with the smallest tick, the lowest
\* such frame when several share it, and -1 when no frame is occupied.
SelectsOldest(ticks, frame_validity) ==
    LET victim == LRU_selectVictimFrame(
                      [vmm.repl EXCEPT !.last_access_times = ticks],
                      frame_validity).victim
        occupied == {i \in DOMAIN frame_validity : frame_validity[i]}
    IN IF occupied = {}
       THEN victim = -1
       ELSE /\ victim \in occupied
            /\ \A j \in occupied :
                  /\ ticks[victim] <= ticks[j]
                  /\ ticks[j] = ticks[victim] => victim <= j

\* C30: under LRU, selectVictimFrame returns the occupied frame with the
\* minimum tick, ties broken by lowest index, for every tick vector and
\* occupancy; and every eviction performed by accessPage removes the resident
\* page whose most recent access (hit or install) is the oldest.
C30_LruEvictsLeastRecentlyUsed ==
    [][(/\ vmm.config_.replacement_policy = "LRU"
        /\ ShortScript
        /\ last'.op = "accessPage") =>
          /\ \A v \in EvictedByStep : \A q \in ValidPages :
                vmm.pages_[v].last_access_time <= vmm.pages_[q].last_access_time
          /\ \A frame_validity \in [DOMAIN vmm.frame_validity_ -> BOOLEAN],
                ticks \in [DOMAIN vmm.frame_validity_ -> 0..MaxFrames] :
                SelectsOldest(ticks, frame_validity)
          /\ selectVictimFrame(vmm.repl, vmm.frame_validity_).victim
                = LRU_scan(vmm.repl, vmm.frame_validity_, 0, -1, -1)]_vars

\* Under LRU the last access evicted a page, and a page accessed only once
\* is gone while another page, resident before this access, has been hit.
C30_Witness ==
    /\ vmm.config_.replacement_policy = "LRU"
    /\ vmm.config_.total_frames = MaxFrames
    /\ last.op = "accessPage"
    /\ \E i \in 1..Len(vmm.events) : vmm.events[i].type = "EVICT"
    /\ \E v \in DOMAIN vmm.pages_, q \in ValidPages :
          /\ ~vmm.pages_[v].valid
          /\ vmm.pages_[q].access_count >= 2
          /\ vmm.pages_[v].access_count = 1
          /\ q # last.page

\* ------------------------------------------------------------ claims 31-40

\* C31: under FIFO, in every state reached through accessPage and setConfig,
\* selectVictimFrame applied to the VMM's frame-validity vector returns no
\* victim (-1) if and only if no frame of that vector is occupied.
C31_FifoNoVictimIffNoneOccupied ==
    vmm.config_.replacement_policy = "FIFO" =>
        ((FIFO_selectVictimFrame(vmm.repl, vmm.frame_validity_).victim = -1)
            <=> (OccupiedFrames = {}))

\* The state `vmm` is one in which accessPage(page_number) faults with no free
\* frame and the policy finds no victim.
FaultsWithoutVictim(page_number) ==
    /\ vmm.simulation_running_
    /\ ~isPageValid(vmm.pages_, page_number)
    /\ findFreeFrame(vmm) = -1
    /\ selectVictimFrame(vmm.repl, vmm.frame_validity_).victim = -1

\* C32: an accessPage call that faults with no free frame and for which the
\* policy selects no victim emits an ERROR event and returns true without
\* installing: total_accesses and page_faults go up by one; swap_ins,
\* swap_outs, every page's valid bit and frame binding and every frame slot
\* stay as they were.
C32_NoVictimInstallsNothing ==
    [][(last'.op = "accessPage" /\ FaultsWithoutVictim(last'.page)) =>
          /\ last'.ret
          /\ vmm'.events[Len(vmm'.events)].type = "ERROR"
          /\ vmm'.metrics_.total_accesses = vmm.metrics_.total_accesses + 1
          /\ vmm'.metrics_.page_faults = vmm.metrics_.page_faults + 1
          /\ vmm'.metrics_.swap_ins = vmm.metrics_.swap_ins
          /\ vmm'.metrics_.swap_outs = vmm.metrics_.swap_outs
          /\ \A q \in AccessPages :
                /\ isPageValid(vmm'.pages_, q) = isPageValid(vmm.pages_, q)
                /\ Entry(vmm'.pages_, q).frame_number = Entry(vmm.pages_, q).frame_number
          /\ vmm'.frame_validity_ = vmm.frame_validity_
          /\ vmm'.frame_to_page_ = vmm.frame_to_page_
          /\ vmm'.frame_modified_ = vmm.frame_modified_]_vars

\* An access has just been answered with ERROR after its FAULT, every frame
\* still holding the page it held.
C32_Witness ==
    /\ last.op = "accessPage"
    /\ last.ret
    /\ Len(vmm.events) >= 2
    /\ vmm.events[Len(vmm.events)].type = "ERROR"
    /\ \E i \in 1..Len(vmm.events) : vmm.events[i].type = "FAULT"
    /\ ~isPageValid(vmm.pages_, last.page)
    /\ getFreeFrameCount(vmm) = 0

\* VMMConfig::total_pages as the source sets it by default.
DefaultTotalPages == 1024

\* C33: the general-stride rule is used only for a non-zero delta: when the
\* last three accessed pages are equal, the predictor applies the locality
\* rule (confidence 0.60, 60 in percent), and none of the pages it predicts
\* (taken at the default total_pages, where no modulo wraps) is the repeated
\* page itself.
C33_ZeroStrideUsesLocality ==
    LET n == Len(vmm.recent_accesses_) IN
    (/\ last.op = "accessPage"
     /\ PredictedIn(vmm.events) # << >>
     /\ vmm.recent_accesses_[n] = vmm.recent_accesses_[n - 1]
     /\ vmm.recent_accesses_[n - 1] = vmm.recent_accesses_[n - 2]) =>
        LET p == vmm.recent_accesses_[n]
            r == PredictFrom(p, p, p, DefaultTotalPages)
        IN /\ vmm.ai_prediction_confidence_ = 60
           /\ r.confidence = 60
           /\ \A i \in 1..Len(r.pages) : r.pages[i] # p

\* How many entries of seq are x.
Occurrences(seq, x) == Cardinality({i \in 1..Len(seq) : seq[i] = x})

\* `after` is `before` with exactly one entry equal to x taken out, the order
\* of the others kept.
RemovesOne(before, after, x) ==
    /\ \E i \in 1..Len(before) : before[i] = x /\ after = EraseAt(before, i)
    /\ Occurrences(after, x) = Occurrences(before, x) - 1

\* C34: hit attribution credits a prediction at most once. An accessPage call
\* that hits page p while p is in the recent-predictions list (as it stands
\* after the call's prefetch step) increments ai_hits by exactly one and
\* removes exactly one occurrence of p from the list; a hit on a page not in
\* the list, and any hit while predictions are disabled, changes neither
\* ai_hits nor the list.
C34_HitCreditsOnePrediction ==
    [][(last'.op = "accessPage" /\ last'.ret
            /\ isPageValid(vmm.pages_, last'.page)) =>
          LET p == last'.page
              listed == AfterPrefetch(p).recent_predictions_
          IN IF vmm.config_.enable_ai_predictions /\ Occurrences(listed, p) > 0
             THEN /\ vmm'.metrics_.ai_hits = vmm.metrics_.ai_hits + 1
                  /\ RemovesOne(listed, vmm'.recent_predictions_, p)
             ELSE /\ vmm'.metrics_.ai_hits = vmm.metrics_.ai_hits
                  /\ vmm'.recent_predictions_ = listed
                  /\ ~vmm.config_.enable_ai_predictions =>
                        vmm'.recent_predictions_ = vmm.recent_predictions_]_vars

\* A hit has just been credited to a page that was predicted more than once:
\* one of its entries is gone, another is still in the list.
C34_Witness ==
    /\ last.op = "accessPage"
    /\ HitAttributedIn(vmm.events)
    /\ vmm.metrics_.ai_hits > 0
    /\ Occurrences(vmm.recent_predictions_, last.page) > 0

\* C35: an access is credited as an AI hit only against a prediction made
\* during an earlier access: whenever an accessPage call increments ai_hits,
\* the page accessed was in the recent-predictions list before the call, so
\* the predictions the call's own prefetch step generated are not what the
\* hit is credited to.
C35_HitCreditsEarlierPrediction ==
    [][(last'.op = "accessPage"
            /\ vmm'.metrics_.ai_hits > vmm.metrics_.ai_hits) =>
          last'.page \in PredictedPages(vmm)]_vars

\* C36: an accessPage call that finds its page resident (a hit) leaves
\* page_faults, swap_outs, the set of resident pages, every page-to-frame
\* binding and every frame's occupancy unchanged; it increments
\* total_accesses and the page's access_count by one, sets the page's
\* last_access_time to the new total_accesses, and sets the page's modified
\* bit and its frame's dirty bit if and only if the access is a write (a read
\* leaves both as they were).
C36_HitEffect ==
    [][(last'.op = "accessPage" /\ last'.ret
            /\ isPageValid(vmm.pages_, last'.page)) =>
          LET p == last'.page
              f == getFrameNumber(vmm.pages_, p)
          IN /\ vmm'.metrics_.page_faults = vmm.metrics_.page_faults
             /\ vmm'.metrics_.swap_outs = vmm.metrics_.swap_outs
             /\ getValidPages(vmm'.pages_) = ValidPages
             /\ \A q \in ValidPages :
                   vmm'.pages_[q].frame_number = vmm.pages_[q].frame_number
             /\ vmm'.frame_validity_ = vmm.frame_validity_
             /\ vmm'.frame_to_page_ = vmm.frame_to_page_
             /\ vmm'.metrics_.total_accesses = vmm.metrics_.total_accesses + 1
             /\ vmm'.pages_[p].access_count = vmm.pages_[p].access_count + 1
             /\ vmm'.pages_[p].last_access_time = vmm'.metrics_.total_accesses
             /\ vmm'.pages_[p].modified = (last'.write \/ vmm.pages_[p].modified)
             /\ vmm'.frame_modified_ =
                   [vmm.frame_modified_ EXCEPT ![f] = last'.write \/ @]
             /\ \A q \in ValidPages \ {p} : vmm'.pages_[q] = vmm.pages_[q]]_vars

\* A read has just hit a clean page that had been accessed before, with a
\* second page resident beside it.
C36_Witness ==
    /\ last.op = "accessPage"
    /\ last.ret
    /\ ~last.write
    /\ vmm.events[Len(vmm.events)].type = "ACCESS"
    /\ vmm.pages_[last.page].access_count >= 2
    /\ ~vmm.pages_[last.page].modified
    /\ Cardinality(ValidPages) >= 2

\* The log of the recording callbacks agrees with total_requests: no more
\* accesses than total_requests since the last start(), and the completion
\* callback ran once if that many were delivered and not at all before.
CompletionMatchesRequests(w, log) ==
    /\ Len(log.accesses) <= w.config_.total_requests
    /\ log.completions =
          IF Len(log.accesses) = w.config_.total_requests THEN 1 ELSE 0

\* C37: a running generator delivers exactly one access per
\* generateNextAccess call, its page in [0, page_range), equal to
\* position mod page_range for SEQUENTIAL and to (position * stride) mod
\* page_range for STRIDED; the completion callback runs exactly once, right
\* after the total_requests-th access since the last start(); a generator
\* that is stopped, or completed and not restarted, delivers nothing.
C37_GeneratorDeliveries ==
    [][/\ last'.op = "generateNextAccess" =>
            IF wl.running_
            THEN LET page == last'.page
                     position == wl.current_position_
                     range == wl.config_.page_range
                 IN /\ last'.ret
                    /\ received'.accesses = Append(received.accesses, page)
                    /\ page \in 0..(range - 1)
                    /\ wl.config_.type = "SEQUENTIAL" => page = position % range
                    /\ wl.config_.type = "STRIDED" =>
                          page = (position * wl.config_.stride) % range
            ELSE /\ ~last'.ret
                 /\ received' = received
                 /\ wl' = wl
       /\ CompletionMatchesRequests(wl', received')
       /\ wl'.running_ => received'.completions = 0]_vars

\* C38: with /simulate/start and /simulate/stop requests handled on separate
\* connection threads, at most one simulation thread exists at any time:
\* startSimulation never creates a second simulation thread while one is
\* still in its loop and never assigns over a joinable simulation_thread_
\* (std::terminate), and the generator's configuration is never written while
\* a simulation thread is inside generateNextAccess.
C38_OneSimulationThread ==
    /\ Cardinality(LiveWorkers) <= 1
    /\ ~threads.terminated
    /\ ~threads.config_raced

\* C39: a metrics reader running beside accessPage and resetMetrics never
\* sees more faults than accesses, nor more AI hits than predictions: the
\* page_faults value getPageFaultRate loads is at most the total_accesses
\* value it loaded (rate in [0,1]), and the ai_hits value getAIHitRate loads
\* is at most the ai_predictions value it loaded.
C39_ReaderSeesConsistentCounters ==
    /\ threads.pc = "fault_rate_returned" => threads.faults <= threads.total
    /\ threads.pc = "hit_rate_returned" => threads.hits <= threads.predictions

\* The mutex thread t is about to take ("none" when it is about to take none).
Wants(t) ==
    CASE threads[t].pc = "lock_vmm" -> "vmm"
      [] threads[t].pc = "lock_page_table" -> "page_table"
      [] threads[t].pc = "emit" /\ threads[t].todo # << >> -> "event"
      [] threads[t].pc = "sse_loop" -> "event"
      [] threads[t].pc = "sse_blocked" /\ received.events_ # << >> -> "event"
      [] OTHER -> "none"

\* Thread t waits for a mutex some thread owns.
Blocked(t) == Wants(t) # "none" /\ locks[Wants(t)] # NoOwner

\* Thread t has entered accessPage and holds the VMM mutex.
InAccessPage(t) == locks.vmm = t /\ Head(threads[t].calls) = "accessPage"

\* A step in which a thread takes the VMM mutex is taken by a thread that
\* holds neither the page-table mutex nor the event-queue mutex, and the two
\* are taken by a thread holding the other of them never.
LockOrderStep ==
    \A t \in LockThreads :
        /\ (locks'.vmm = t /\ locks.vmm # t) =>
               (locks.page_table # t /\ locks.event # t)
        /\ (locks'.page_table = t /\ locks.page_table # t) => locks.event # t
        /\ (locks'.event = t /\ locks.event # t) => locks.page_table # t

\* No thread that holds the event-queue mutex waits for the VMM mutex.
NoVmmWaitHoldingEventMutex ==
    \A t \in LockThreads : locks.event = t => Wants(t) # "vmm"

\* Every thread that waits for a mutex waits for a thread other than itself
\* that waits for no mutex, or for one that waits for such a thread.
NoWaitCycle ==
    \A t \in LockThreads :
        Blocked(t) =>
            LET o == locks[Wants(t)] IN
            /\ o # t
            /\ \/ ~Blocked(o)
               \/ LET o2 == locks[Wants(o)] IN o2 \notin {t, o} /\ ~Blocked(o2)

=============================================================================
